---------------------------- MODULE Spec2Model ----------------------------
(***************************************************************************)
(* Verification model of the numeric kernels of the arbitrage bot:         *)
(*   lib/math/src/math.rs          pow (Q64.64 fixed-point power)          *)
(*   lib/meteora-dlmm/src/math.rs  pow, get_price_from_id,                 *)
(*                                 get_id_from_price                       *)
(*                                                                         *)
(* u128 values are kept at their full width.  TLC's integers are 32 bits   *)
(* wide, so a u128 is a little-endian sequence of base-256 limbs without   *)
(* leading zero limbs (zero is the empty sequence); the arithmetic below   *)
(* is exact natural-number arithmetic on that representation, and the      *)
(* Rust operations (checked_mul, checked_div, >>) are defined on top of    *)
(* it with their 128-bit overflow rules.                                   *)
(*                                                                         *)
(* TLC evaluates an operator's argument every time the body uses it, but a *)
(* bound variable only once.  An operator that uses an argument many times *)
(* therefore binds it first:  CHOOSE r \in {F(x) : x \in {a}} : TRUE  is    *)
(* F(a) with a evaluated once, and Bind(e, LAMBDA x : body) is             *)
(* LET x == e IN body with e evaluated once.                               *)
(***************************************************************************)
EXTENDS Integers, Sequences, FiniteSets, TLC

(***************************************************************************)
(* Natural numbers as limb sequences                                       *)
(***************************************************************************)
LIMB == 256

Zero == << >>

\* F(v) with v evaluated once
Bind(v, F(_)) == CHOOSE r \in {F(x) : x \in {v}} : TRUE

Max(x, y) == IF x > y THEN x ELSE y

Min(x, y) == IF x < y THEN x ELSE y

RECURSIVE IntPow2(_)
IntPow2(k) == IF k = 0 THEN 1 ELSE 2 * IntPow2(k - 1)

RECURSIVE Strip(_, _)
\* the first n limbs of a without the leading zero limbs among them
Strip(a, n) == IF n = 0 THEN << >>
               ELSE IF a[n] = 0 THEN Strip(a, n - 1)
               ELSE SubSeq(a, 1, n)

Norm(a) == CHOOSE r \in {Strip(x, Len(x)) : x \in {a}} : TRUE

RECURSIVE FromInt(_)
FromInt(n) == IF n = 0 THEN << >> ELSE <<n % LIMB>> \o FromInt(n \div LIMB)

Pow2(k) == [i \in 1..((k \div 8) + 1) |->
               IF i = (k \div 8) + 1 THEN IntPow2(k % 8) ELSE 0]

Limb(a, i) == IF i <= Len(a) THEN a[i] ELSE 0

RECURSIVE CmpFrom(_, _, _)
CmpFrom(a, b, i) == IF i = 0 THEN 0
                    ELSE IF a[i] < b[i] THEN -1
                    ELSE IF a[i] > b[i] THEN 1
                    ELSE CmpFrom(a, b, i - 1)

CmpLimbs(a, b) == IF Len(a) < Len(b) THEN -1
                  ELSE IF Len(a) > Len(b) THEN 1
                  ELSE CmpFrom(a, b, Len(a))

Cmp(a, b) == CHOOSE r \in {CmpLimbs(x, y) : x \in {a}, y \in {b}} : TRUE

Lt(a, b) == Cmp(a, b) < 0

Le(a, b) == Cmp(a, b) <= 0

RECURSIVE Carry(_, _, _)
\* the limbs of the number whose base-256 columns, from index i on, are cols,
\* with c carried in
Carry(cols, i, c) ==
    IF i > Len(cols) THEN FromInt(c)
    ELSE <<(cols[i] + c) % LIMB>> \o Carry(cols, i + 1, (cols[i] + c) \div LIMB)

\* the number whose base-256 columns are cols
Carried(cols) == CHOOSE r \in {Norm(Carry(c, 1, 0)) : c \in {cols}} : TRUE

AddLimbs(a, b) ==
    Carried([i \in 1..Max(Len(a), Len(b)) |-> Limb(a, i) + Limb(b, i)])

Add(a, b) == CHOOSE r \in {AddLimbs(x, y) : x \in {a}, y \in {b}} : TRUE

RECURSIVE Borrow(_, _, _, _)
Borrow(a, b, i, br) ==
    IF i > Len(a) THEN << >>
    ELSE LET d == a[i] - Limb(b, i) - br
         IN  <<IF d < 0 THEN d + LIMB ELSE d>>
                 \o Borrow(a, b, i + 1, IF d < 0 THEN 1 ELSE 0)

\* a - b for a >= b
Sub(a, b) == CHOOSE r \in {Norm(Borrow(x, y, 1, 0)) : x \in {a}, y \in {b}} : TRUE

\* |a - b|
AbsDiff(a, b) == IF Le(b, a) THEN Sub(a, b) ELSE Sub(b, a)

RECURSIVE ColSum(_, _, _, _)
ColSum(a, b, k, i) ==
    IF i > Min(Len(a), k) THEN 0
    ELSE a[i] * b[k + 1 - i] + ColSum(a, b, k, i + 1)

MulLimbs(a, b) ==
    IF Len(a) = 0 \/ Len(b) = 0 THEN << >>
    ELSE Carried([k \in 1..(Len(a) + Len(b) - 1) |->
                     ColSum(a, b, k, Max(1, k + 1 - Len(b)))])

Mul(a, b) == CHOOSE r \in {MulLimbs(x, y) : x \in {a}, y \in {b}} : TRUE

MulSmallLimbs(a, d) ==
    IF d = 0 THEN << >> ELSE Carried([i \in 1..Len(a) |-> a[i] * d])

MulSmall(a, d) == CHOOSE r \in {MulSmallLimbs(x, e) : x \in {a}, e \in {d}} : TRUE

DropLimbs(a, n) == IF Len(a) <= n THEN << >> ELSE SubSeq(a, n + 1, Len(a))

ShrLimbs(a, n) == CHOOSE r \in {DropLimbs(x, n) : x \in {a}} : TRUE

TopInt(a, n, hi) ==
    \* the integer made of the n (2 or 3) limbs of a ending at limb hi
    IF n = 3
    THEN (Limb(a, hi) * LIMB + (IF hi >= 2 THEN Limb(a, hi - 1) ELSE 0)) * LIMB
            + (IF hi >= 3 THEN Limb(a, hi - 2) ELSE 0)
    ELSE Limb(a, hi) * LIMB + (IF hi >= 2 THEN Limb(a, hi - 1) ELSE 0)

QDigit(r, b) ==
    \* the largest d in 0..255 with d * b <= r, for r < 256 * b: estimated
    \* from the leading limbs (never too small, at most two too large)
    IF Lt(r, b) THEN 0
    ELSE LET n    == Len(b)
             bt   == IF n = 1 THEN b[1] * LIMB ELSE TopInt(b, 2, n)
             rt   == TopInt(r, 3, n + 1)
             qhat == Min(LIMB - 1, rt \div bt)
         IN  IF Le(MulSmall(b, qhat), r) THEN qhat
             ELSE IF Le(MulSmall(b, qhat - 1), r) THEN qhat - 1
             ELSE qhat - 2

\* one digit of the long division by b: the limb ai is brought down to the
\* running remainder r and the quotient digit is put in front of q
DivDigit(b, ai, r, q) ==
    Bind(Norm(<<ai>> \o r), LAMBDA r1 :
    Bind(QDigit(r1, b), LAMBDA d :
        [r |-> Sub(r1, MulSmall(b, d)), q |-> <<d>> \o q]))

RECURSIVE DivStep(_, _, _, _)
\* long division of a by b, most significant limb first; st holds the
\* running remainder and the quotient so far
DivStep(a, b, i, st) ==
    IF i = 0 THEN st.q
    ELSE Bind(DivDigit(b, a[i], st.r, st.q), LAMBDA s2 :
              DivStep(a, b, i - 1, s2))

\* floor(a / b) for b > 0
Div(a, b) ==
    CHOOSE z \in {Norm(DivStep(x, y, Len(x), [r |-> << >>, q |-> << >>])) :
                     x \in {a}, y \in {b}} : TRUE

\* a >> n
Shr(a, n) ==
    IF n % 8 = 0 THEN ShrLimbs(a, n \div 8)
    ELSE Div(ShrLimbs(a, n \div 8), FromInt(IntPow2(n % 8)))

\* a << n
Shl(a, n) == Mul(a, Pow2(n))

(***************************************************************************)
(* Rust values                                                             *)
(***************************************************************************)
Some(v) == [kind |-> "Some", v |-> v]

None == [kind |-> "None", v |-> Zero]

\* a panic of the thread (integer overflow with overflow checks on, unwrap)
Panic == [kind |-> "Panic", v |-> Zero]

I32_MIN == -2147483647 - 1

I32_MAX == 2147483647

U128_MAX == Sub(Pow2(128), FromInt(1))

checked_mul(a, b) ==
    Bind(Mul(a, b), LAMBDA p : IF Len(p) > 16 THEN None ELSE Some(p))

checked_div(a, b) ==
    Bind(b, LAMBDA d : IF d = Zero THEN None ELSE Some(Div(a, d)))

checked_add(a, b) ==
    Bind(Add(a, b), LAMBDA s : IF Len(s) > 16 THEN None ELSE Some(s))

\* exp & (1 << bit) > 0
BitSet(e, b) == (e \div IntPow2(b)) % 2 = 1

\* (a.checked_mul(b)?) >> 64, None standing for the early return
mul_shr(a, b) ==
    Bind(checked_mul(a, b), LAMBDA p :
        IF p.kind = "None" THEN None ELSE Some(Shr(p.v, 64)))

(***************************************************************************)
(* State                                                                   *)
(***************************************************************************)
VARIABLES
    base,           \* pow: argument base (Q64.64)
    exp,            \* pow: argument exp (i32)
    pc,             \* pow: "call", "loop", "tail", or the line of the return
    invert,         \* pow: local invert
    uexp,           \* pow: local exp after the conversion to u32
    squared_base,   \* pow: local squared_base
    result,         \* pow: local result
    bit,            \* pow: the bit the unrolled loop is at
    ret,            \* pow: the returned Option<u128>
    op,             \* dlmm: the function called, "none" outside SpecBin
    active_id,      \* get_price_from_id: argument active_id (i32)
    bin_step,       \* both dlmm functions: argument bin_step (u16)
    price,          \* get_id_from_price: argument price (Decimal)
    rounding,       \* get_id_from_price: argument rounding
    overflow_checks,\* whether the build panics on integer overflow
    out,            \* dlmm: the value returned, NotYet before the call
    tick_index,     \* whirlpool: argument of tick_index_to_sqrt_price (i32)
    tick_pc,        \* whirlpool: "price", "index", "done", "idle"
    tick_price,     \* whirlpool: the value of tick_index_to_sqrt_price
    sqrt_price,     \* whirlpool: argument of sqrt_price_to_tick_index (U128)
    tick_ret,       \* whirlpool: the value of sqrt_price_to_tick_index
    quote_op,       \* pump-amm: the function called, "none" outside SpecQuote
    amount,         \* pump-amm: first argument (base or quote)
    slippage,       \* pump-amm: argument slippage, in whole percent
    base_reserve,   \* pump-amm: argument base_reserve
    quote_reserve,  \* pump-amm: argument quote_reserve
    lp_fee_bps,     \* pump-amm: argument lp_fee_bps
    protocol_fee_bps,       \* pump-amm: argument protocol_fee_bps
    coin_creator_fee_bps,   \* pump-amm: argument coin_creator_fee_bps
    creator_is_default,     \* pump-amm: coin_creator == Pubkey::default()
    quote_ret,      \* pump-amm: the Result returned, NotYet before the call
    fee_bps,        \* dlmm: argument fee_bps of compute_base_factor_from_fee_bps
    fee_step,       \* dlmm: its argument bin_step
    fee_pc,         \* dlmm: "call", "loop", "done", "idle"
    truncated_base_factor,  \* dlmm: the loop's float, as a Float record
    base_power_factor,      \* dlmm: the loop's counter (u8)
    fee_ret,        \* dlmm: the Result returned, NotYet before the return
    blockhash_lock, \* bot: holder [task, mint] of the cached_blockhash mutex
    pool_lock,      \* bot: per mint, holder of the mint_pool_data mutex
    cached_blockhash,       \* bot: the value inside the blockhash mutex
    refresher_pc,   \* bot: position of blockhash_refresher and the hash it fetched
    pool_pc,        \* bot: per mint, position of the pool refresh task
    send_pc,        \* bot: per mint, position of the transaction task
    latest_blockhash        \* bot: per mint, the sender's copy of the blockhash

powVars == <<base, exp, pc, invert, uexp, squared_base, result, bit, ret>>

binVars == <<op, active_id, bin_step, price, rounding, overflow_checks, out>>

tickVars == <<tick_index, tick_pc, tick_price, sqrt_price, tick_ret>>

quoteVars == <<quote_op, amount, slippage, base_reserve, quote_reserve,
               lp_fee_bps, protocol_fee_bps, coin_creator_fee_bps,
               creator_is_default, quote_ret>>

feeVars == <<fee_bps, fee_step, fee_pc, truncated_base_factor,
             base_power_factor, fee_ret>>

botVars == <<blockhash_lock, pool_lock, cached_blockhash, refresher_pc,
             pool_pc, send_pc, latest_blockhash>>

vars == <<base, exp, pc, invert, uexp, squared_base, result, bit, ret,
          op, active_id, bin_step, price, rounding, overflow_checks, out,
          tick_index, tick_pc, tick_price, sqrt_price, tick_ret,
          quote_op, amount, slippage, base_reserve, quote_reserve,
          lp_fee_bps, protocol_fee_bps, coin_creator_fee_bps,
          creator_is_default, quote_ret,
          fee_bps, fee_step, fee_pc, truncated_base_factor,
          base_power_factor, fee_ret,
          blockhash_lock, pool_lock, cached_blockhash, refresher_pc,
          pool_pc, send_pc, latest_blockhash>>

(***************************************************************************)
(* lib/math/src/math.rs: pow                                               *)
(***************************************************************************)
SCALE_OFFSET == 64

MAX_EXPONENTIAL == 19

\* the last bit the unrolled pow_bits! handles
LAST_BIT == 18

ONE == Pow2(SCALE_OFFSET)

\* the locals of pow before its first statement
NewFrame ==
    [pc |-> "call", invert |-> FALSE, uexp |-> 0, squared_base |-> Zero,
     result |-> Zero, bit |-> 0, ret |-> None]

\* line 16: exp == 0
exp_is_zero_never(e) == FALSE

exp_is_zero(e) == e = 0

\* line 31: exp >= MAX_EXPONENTIAL
exponent_overflows_off_by_one(ue) == ue > MAX_EXPONENTIAL

exponent_overflows(ue) == ue >= MAX_EXPONENTIAL

\* lines 40-43 without the reciprocal of the base
normalise_base_keeps_base(f, b) ==
    IF ~Lt(b, ONE)
    THEN [f EXCEPT !.pc = "loop", !.invert = ~f.invert, !.squared_base = b,
                   !.result = ONE]
    ELSE [f EXCEPT !.pc = "loop", !.squared_base = b, !.result = ONE]

\* lines 40-43 without the toggle of invert
normalise_base_no_toggle(f, b) ==
    IF ~Lt(b, ONE)
    THEN [f EXCEPT !.pc = "loop", !.squared_base = Div(U128_MAX, b),
                   !.result = ONE]
    ELSE [f EXCEPT !.pc = "loop", !.squared_base = b, !.result = ONE]

\* lines 40-43 with > for >=
normalise_base_strict(f, b) ==
    IF Lt(ONE, b)
    THEN [f EXCEPT !.pc = "loop", !.invert = ~f.invert,
                   !.squared_base = Div(U128_MAX, b), !.result = ONE]
    ELSE [f EXCEPT !.pc = "loop", !.squared_base = b, !.result = ONE]

\* lines 35-43: squared_base = base, result = ONE, and the base replaced by
\* its reciprocal (invert toggled) when squared_base >= result
normalise_base(f, b) ==
    IF ~Lt(b, ONE)
    THEN Bind(checked_div(U128_MAX, b), LAMBDA d :
             IF d.kind = "None" THEN [f EXCEPT !.pc = "ret41", !.ret = None]
             ELSE [f EXCEPT !.pc = "loop", !.invert = ~f.invert,
                            !.squared_base = d.v, !.result = ONE])
    ELSE [f EXCEPT !.pc = "loop", !.squared_base = b, !.result = ONE]

\* lines 13-43: the exponent checks and the normalisation of the base
pow_entry(b, e) ==
    LET neg == e < 0
        f0  == [NewFrame EXCEPT !.invert = neg]
    IN  IF exp_is_zero(e) THEN [f0 EXCEPT !.pc = "ret17", !.ret = Some(ONE)]
        ELSE IF neg /\ e = I32_MIN THEN [f0 EXCEPT !.pc = "ret23", !.ret = None]
        ELSE LET ue == IF neg THEN -e ELSE e
                 f1 == [f0 EXCEPT !.uexp = ue]
             IN  IF exponent_overflows(ue)
                 THEN [f1 EXCEPT !.pc = "ret32", !.ret = None]
                 ELSE normalise_base(f1, b)

\* lines 46-58: one expansion of pow_bits! (for $bit = f.bit)
pow_bits(f) ==
    Bind(IF BitSet(f.uexp, f.bit) THEN checked_mul(f.result, f.squared_base)
         ELSE Some(f.result), LAMBDA m1 :
    IF m1.kind = "None" THEN [f EXCEPT !.pc = "ret50", !.ret = None]
    ELSE Bind(IF BitSet(f.uexp, f.bit) THEN Shr(m1.v, SCALE_OFFSET)
              ELSE f.result, LAMBDA res :
         Bind(checked_mul(f.squared_base, f.squared_base), LAMBDA m2 :
         IF m2.kind = "None"
         THEN [f EXCEPT !.pc = "ret52", !.result = res, !.ret = None]
         ELSE [f EXCEPT !.result = res,
                        !.squared_base = Shr(m2.v, SCALE_OFFSET),
                        !.bit = f.bit + 1,
                        !.pc = IF f.bit = LAST_BIT THEN "tail" ELSE "loop"])))

\* lines 60-70 without the zero check
pow_finish_no_zero_check(f) ==
    IF f.invert
    THEN Bind(checked_div(U128_MAX, f.result), LAMBDA d :
             IF d.kind = "None" THEN [f EXCEPT !.pc = "ret67", !.ret = None]
             ELSE [f EXCEPT !.pc = "ret70", !.result = d.v, !.ret = Some(d.v)])
    ELSE [f EXCEPT !.pc = "ret70", !.ret = Some(f.result)]

\* lines 60-70 without the final inversion
pow_finish_no_invert(f) ==
    IF f.result = Zero THEN [f EXCEPT !.pc = "ret62", !.ret = None]
    ELSE [f EXCEPT !.pc = "ret70", !.ret = Some(f.result)]

\* lines 60-70: the zero check and the final inversion
pow_finish(f) ==
    IF f.result = Zero THEN [f EXCEPT !.pc = "ret62", !.ret = None]
    ELSE IF f.invert
    THEN Bind(checked_div(U128_MAX, f.result), LAMBDA d :
             IF d.kind = "None" THEN [f EXCEPT !.pc = "ret67", !.ret = None]
             ELSE [f EXCEPT !.pc = "ret70", !.result = d.v, !.ret = Some(d.v)])
    ELSE [f EXCEPT !.pc = "ret70", !.ret = Some(f.result)]

RECURSIVE pow_loop(_)
pow_loop(f) ==
    IF f.pc # "loop" THEN f ELSE Bind(pow_bits(f), LAMBDA g : pow_loop(g))

\* pow as a function: Option<u128>
pow(b, e) ==
    Bind(pow_entry(b, e), LAMBDA f :
    Bind(pow_loop(f), LAMBDA g :
        IF g.pc = "tail" THEN pow_finish(g).ret ELSE g.ret))

(***************************************************************************)
(* lib/meteora-dlmm/src/math.rs: pow, get_price_from_id                    *)
(***************************************************************************)
BASIS_POINT_MAX == 10000

\* 0x80000
DLMM_MAX_EXPONENTIAL == 524288

Ok(v) == [kind |-> "Ok", v |-> v]

Err == [kind |-> "Err", v |-> Zero]

RECURSIVE ToInt(_)
ToInt(a) == IF Len(a) = 0 THEN 0 ELSE a[1] + LIMB * ToInt(SubSeq(a, 2, Len(a)))

\* line 148: if invert { exp.abs() as u32 } else { exp as u32 }, as a natural
\* number.  i32::MIN.abs() overflows: with overflow checks the thread panics,
\* without them the value wraps to i32::MIN, which `as u32` turns into 2^31.
dlmm_exp_to_u32(e, checks) ==
    IF e = I32_MIN THEN (IF checks THEN Panic ELSE Some(Pow2(31)))
    ELSE Some(FromInt(IF e < 0 THEN -e ELSE e))

\* lines 189-287 with the base squared before the first bit too, so that
\* bit k multiplies by the power of bit k + 1
dlmm_pow_bits_square_first(l, ue, k) ==
    Bind(mul_shr(l.squared_base, l.squared_base), LAMBDA q :
    IF q.kind = "None" THEN [l EXCEPT !.ok = FALSE]
    ELSE Bind(IF BitSet(ue, k) THEN mul_shr(l.result, q.v)
              ELSE Some(l.result), LAMBDA m :
         IF m.kind = "None" THEN [l EXCEPT !.ok = FALSE]
         ELSE [l EXCEPT !.squared_base = q.v, !.result = m.v]))

\* lines 189-287: the statements for bit k of the exponent: for k > 0 the
\* base is squared first, then the result is multiplied when the bit is set
dlmm_pow_bits(l, ue, k) ==
    Bind(IF k = 0 THEN Some(l.squared_base)
         ELSE mul_shr(l.squared_base, l.squared_base), LAMBDA q :
    IF q.kind = "None" THEN [l EXCEPT !.ok = FALSE]
    ELSE Bind(IF BitSet(ue, k) THEN mul_shr(l.result, q.v)
              ELSE Some(l.result), LAMBDA m :
         IF m.kind = "None" THEN [l EXCEPT !.ok = FALSE]
         ELSE [l EXCEPT !.squared_base = q.v, !.result = m.v]))

RECURSIVE dlmm_pow_loop(_, _, _)
dlmm_pow_loop(l, ue, k) ==
    IF k > LAST_BIT \/ ~l.ok THEN l
    ELSE Bind(dlmm_pow_bits(l, ue, k), LAMBDA g : dlmm_pow_loop(g, ue, k + 1))

\* lines 289-298 without the final inversion
dlmm_pow_finish_no_invert(l, inv) ==
    IF ~l.ok THEN None
    ELSE IF l.result = Zero THEN None
    ELSE Some(l.result)

\* lines 289-298: None when a product overflowed or the result is 0, and the
\* final inversion
dlmm_pow_finish(l, inv) ==
    IF ~l.ok THEN None
    ELSE IF l.result = Zero THEN None
    ELSE IF inv THEN checked_div(U128_MAX, l.result)
    ELSE Some(l.result)

\* lines 138-299
dlmm_pow(b, e, checks) ==
    Bind(dlmm_exp_to_u32(e, checks), LAMBDA u :
    IF e = 0 THEN Some(ONE)
    ELSE IF u.kind = "Panic" THEN Panic
    ELSE IF Le(FromInt(DLMM_MAX_EXPONENTIAL), u.v) THEN None
    ELSE Bind(~Lt(b, ONE), LAMBDA big :
         Bind(IF big THEN checked_div(U128_MAX, b) ELSE Some(b), LAMBDA d :
         IF d.kind = "None" THEN None
         ELSE Bind(dlmm_pow_loop([squared_base |-> d.v, result |-> ONE,
                                  ok |-> TRUE], ToInt(u.v), 0), LAMBDA l :
              dlmm_pow_finish(l, big # (e < 0))))))

\* lines 302-308: ONE + ((bin_step << 64) / BASIS_POINT_MAX)
bin_base(step) ==
    checked_add(ONE, Div(Shl(FromInt(step), SCALE_OFFSET),
                         FromInt(BASIS_POINT_MAX)))

\* lines 301-311
get_price_from_id(id, step, checks) ==
    Bind(bin_base(step), LAMBDA b :
    IF b.kind = "None" THEN Err
    ELSE Bind(dlmm_pow(b.v, id, checks), LAMBDA p :
         IF p.kind = "Panic" THEN Panic
         ELSE IF p.kind = "None" THEN Err
         ELSE Ok(p.v)))

(***************************************************************************)
(* lib/meteora-dlmm/src/math.rs: get_id_from_price                         *)
(*                                                                         *)
(* A Decimal is its mantissa m and scale: the value m / 10^scale.          *)
(* Decimal::log10 belongs to the rust_decimal crate; the quotient          *)
(* price.log10() / base.log10() is modelled as the exact logarithm of      *)
(* price to the base 1 + bin_step/10000, found by exact comparisons of     *)
(* integer powers.                                                         *)
(***************************************************************************)
Dec(m, scale) == [m |-> m, scale |-> scale]

RECURSIVE BigPow(_, _)
\* n^k
BigPow(n, k) == IF k = 0 THEN FromInt(1) ELSE Mul(FromInt(n), BigPow(n, k - 1))

\* the two sides of (1 + bin_step/10000)^k <= p, cleared of denominators
PowerSides(k, p, s) ==
    IF k >= 0
    THEN << Mul(BigPow(BASIS_POINT_MAX + s, k), BigPow(10, p.scale)),
            Mul(FromInt(p.m), BigPow(BASIS_POINT_MAX, k)) >>
    ELSE << Mul(BigPow(BASIS_POINT_MAX, -k), BigPow(10, p.scale)),
            Mul(FromInt(p.m), BigPow(BASIS_POINT_MAX + s, -k)) >>

\* (1 + s/10000)^k <= p
PowerLe(k, p, s) == Bind(PowerSides(k, p, s), LAMBDA x : Le(x[1], x[2]))

\* (1 + s/10000)^k >= p
PowerGe(k, p, s) == Bind(PowerSides(k, p, s), LAMBDA x : Le(x[2], x[1]))

RECURSIVE FloorLogFrom(_, _, _)
\* the largest k with (1 + s/10000)^k <= p, searched from k
FloorLogFrom(k, p, s) ==
    IF PowerLe(k, p, s)
    THEN (IF PowerLe(k + 1, p, s) THEN FloorLogFrom(k + 1, p, s) ELSE k)
    ELSE FloorLogFrom(k - 1, p, s)

\* line 92 with Down also rounded up
round_quotient_always_ceil(k, exact, r) == IF exact THEN k ELSE k + 1

\* lines 92-93: .floor() and .ceil() of a quotient whose floor is k
round_quotient(k, exact, r) ==
    IF r = "Down" THEN k ELSE IF exact THEN k ELSE k + 1

\* lines 87-97
get_id_from_price(s, p, r) ==
    IF p.m <= 0 THEN Panic                  \* Decimal::log10 panics
    ELSE IF s = 0 THEN None                 \* checked_div by log10(1) = 0
    ELSE Bind(FloorLogFrom(0, p, s), LAMBDA k :
              Some(round_quotient(k, PowerGe(k, p, s), r)))

(***************************************************************************)
(* Inputs                                                                  *)
(***************************************************************************)
\* number of sample bases drawn
NumBases == 16

\* exponents are drawn from -MaxExp..MaxExp and the two ends of i32
MaxExp == 20

Bases ==
    << Zero,                                        \* 0
       FromInt(1),                                  \* 2^-64
       Pow2(32),                                    \* 2^-32
       Pow2(60),                                    \* 0.0625
       Pow2(61),                                    \* 0.125
       Pow2(63),                                    \* 0.5
       Sub(ONE, FromInt(1)),                        \* 1 - 2^-64
       ONE,                                         \* 1.0
       Add(ONE, FromInt(1)),                        \* 1 + 2^-64
       Add(ONE, Shr(ONE, 10)),                      \* ONE + (ONE >> 10)
       Add(ONE, Div(Pow2(64), FromInt(10000))),     \* 1.0001
       MulSmall(Pow2(63), 3),                       \* 1.5
       Sub(Pow2(65), FromInt(1)),                   \* 2 - 2^-64
       Pow2(65),                                    \* 2.0
       Pow2(127),
       U128_MAX,
       MulSmall(Pow2(62), 3),                       \* 0.75
       MulSmall(Pow2(62), 5) >>                     \* 1.25

BaseInputs == {Bases[i] : i \in 1..Min(NumBases, Len(Bases))}

ExpInputs == (-MaxExp..MaxExp) \cup {I32_MIN, I32_MAX}

\* bin ids are drawn from -MaxBinId..MaxBinId and a few far ones
MaxBinId == 20

BinIdInputs ==
    (-MaxBinId..MaxBinId)
        \cup {-400001, -400000, 443636, -443636, DLMM_MAX_EXPONENTIAL - 1,
              1 - DLMM_MAX_EXPONENTIAL, DLMM_MAX_EXPONENTIAL,
              -DLMM_MAX_EXPONENTIAL, I32_MIN, I32_MAX}

BinStepInputs == {0, 1, 100, 10000, 65535}

\* number of (bin_step, price) queries drawn for get_id_from_price
NumIdQueries == 30

IdQueries ==
    << <<0, Dec(1, 0)>>,        <<0, Dec(2, 0)>>,        <<0, Dec(0, 0)>>,
       <<100, Dec(0, 0)>>,      <<100, Dec(-1, 0)>>,     <<1, Dec(1, 0)>>,
       <<1, Dec(10001, 4)>>,    <<1, Dec(100015, 5)>>,   <<1, Dec(9999, 4)>>,
       <<100, Dec(1, 0)>>,      <<100, Dec(101, 2)>>,    <<100, Dec(10201, 4)>>,
       <<100, Dec(1015, 3)>>,   <<100, Dec(99, 2)>>,     <<100, Dec(12, 1)>>,
       <<100, Dec(85, 2)>>,     <<10000, Dec(1, 0)>>,    <<10000, Dec(2, 0)>>,
       <<10000, Dec(4, 0)>>,    <<10000, Dec(5, 1)>>,    <<10000, Dec(25, 2)>>,
       <<10000, Dec(15, 1)>>,   <<10000, Dec(3, 0)>>,    <<10000, Dec(7, 1)>>,
       <<65535, Dec(75535, 4)>>, <<65535, Dec(1, 0)>>,   <<65535, Dec(3, 0)>>,
       <<65535, Dec(60, 0)>>,   <<65535, Dec(1, 1)>>,    <<10000, Dec(1024, 0)>>,
       <<100, Dec(11, 1)>>,     <<1, Dec(1001, 3)>> >>

(***************************************************************************)
(* Specification of pow                                                    *)
(***************************************************************************)
Frame ==
    [pc |-> pc, invert |-> invert, uexp |-> uexp, squared_base |-> squared_base,
     result |-> result, bit |-> bit, ret |-> ret]

SetFrame(f) ==
    /\ pc' = f.pc
    /\ invert' = f.invert
    /\ uexp' = f.uexp
    /\ squared_base' = f.squared_base
    /\ result' = f.result
    /\ bit' = f.bit
    /\ ret' = f.ret

PowInit ==
    /\ base \in BaseInputs
    /\ exp \in ExpInputs
    /\ pc = NewFrame.pc
    /\ invert = NewFrame.invert
    /\ uexp = NewFrame.uexp
    /\ squared_base = NewFrame.squared_base
    /\ result = NewFrame.result
    /\ bit = NewFrame.bit
    /\ ret = NewFrame.ret

PowEntry ==
    /\ pc = "call"
    /\ SetFrame(pow_entry(base, exp))
    /\ UNCHANGED <<base, exp>>

PowBits ==
    /\ pc = "loop"
    /\ SetFrame(pow_bits(Frame))
    /\ UNCHANGED <<base, exp>>

PowFinish ==
    /\ pc = "tail"
    /\ SetFrame(pow_finish(Frame))
    /\ UNCHANGED <<base, exp>>

NotYet == [kind |-> "NotYet", v |-> Zero]

BinIdle ==
    /\ op = "none"
    /\ active_id = 0
    /\ bin_step = 0
    /\ price = Dec(0, 0)
    /\ rounding = "Down"
    /\ overflow_checks = FALSE
    /\ out = NotYet

TickIdle ==
    /\ tick_index = 0
    /\ tick_pc = "idle"
    /\ tick_price = Zero
    /\ sqrt_price = Zero
    /\ tick_ret = 0

QuoteIdle ==
    /\ quote_op = "none"
    /\ amount = Zero
    /\ slippage = 0
    /\ base_reserve = Zero
    /\ quote_reserve = Zero
    /\ lp_fee_bps = Zero
    /\ protocol_fee_bps = Zero
    /\ coin_creator_fee_bps = Zero
    /\ creator_is_default = TRUE
    /\ quote_ret = NotYet

FeeIdle ==
    /\ fee_bps = 0
    /\ fee_step = 0
    /\ fee_pc = "idle"
    /\ truncated_base_factor = [kind |-> "finite", whole |-> 0, exact |-> TRUE]
    /\ base_power_factor = 0
    /\ fee_ret = NotYet

BotIdle ==
    /\ blockhash_lock = [task |-> "none", mint |-> 0]
    /\ pool_lock = << >>
    /\ cached_blockhash = 0
    /\ refresher_pc = [at |-> "idle", blockhash |-> 0]
    /\ pool_pc = << >>
    /\ send_pc = << >>
    /\ latest_blockhash = << >>

Init == PowInit /\ BinIdle /\ TickIdle /\ QuoteIdle /\ FeeIdle /\ BotIdle

Next ==
    \/ PowEntry /\ UNCHANGED <<binVars, tickVars, quoteVars, feeVars, botVars>>
    \/ PowBits /\ UNCHANGED <<binVars, tickVars, quoteVars, feeVars, botVars>>
    \/ PowFinish /\ UNCHANGED <<binVars, tickVars, quoteVars, feeVars, botVars>>

Spec == Init /\ [][Next]_vars

(***************************************************************************)
(* Specification of the dlmm bin functions                                 *)
(***************************************************************************)
PowIdle ==
    /\ base = Zero
    /\ exp = 0
    /\ pc = "idle"
    /\ invert = NewFrame.invert
    /\ uexp = NewFrame.uexp
    /\ squared_base = NewFrame.squared_base
    /\ result = NewFrame.result
    /\ bit = NewFrame.bit
    /\ ret = NewFrame.ret

BinInit ==
    /\ PowIdle
    /\ TickIdle
    /\ QuoteIdle
    /\ FeeIdle
    /\ BotIdle
    /\ out = NotYet
    /\ overflow_checks \in BOOLEAN
    /\ \/ /\ op = "get_price_from_id"
          /\ bin_step \in BinStepInputs
          /\ active_id \in BinIdInputs
          /\ price = Dec(0, 0)
          /\ rounding = "Down"
       \/ /\ op = "get_id_from_price"
          /\ active_id = 0
          /\ \E i \in 1..Min(NumIdQueries, Len(IdQueries)) :
                /\ bin_step = IdQueries[i][1]
                /\ price = IdQueries[i][2]
          /\ rounding \in {"Down", "Up"}

GetPriceFromId ==
    /\ op = "get_price_from_id"
    /\ out.kind = "NotYet"
    /\ out' = get_price_from_id(active_id, bin_step, overflow_checks)
    /\ UNCHANGED <<op, active_id, bin_step, price, rounding, overflow_checks>>
    /\ UNCHANGED <<powVars, tickVars, quoteVars, feeVars, botVars>>

GetIdFromPrice ==
    /\ op = "get_id_from_price"
    /\ out.kind = "NotYet"
    /\ out' = get_id_from_price(bin_step, price, rounding)
    /\ UNCHANGED <<op, active_id, bin_step, price, rounding, overflow_checks>>
    /\ UNCHANGED <<powVars, tickVars, quoteVars, feeVars, botVars>>

BinNext == GetPriceFromId \/ GetIdFromPrice

SpecBin == BinInit /\ [][BinNext]_vars

Returned == pc \notin {"call", "loop", "tail"}

InRange(e) == -MAX_EXPONENTIAL < e /\ e < MAX_EXPONENTIAL

(***************************************************************************)
(* Claims about pow (lib/math/src/math.rs), checked under Spec             *)
(***************************************************************************)

\* C1: pow returns a failure (None), for every base, whenever |exp| >= 19,
\* i32::MIN included; no value is returned in these cases.
C1_ExponentOutOfRangeFails ==
    (Returned /\ (exp <= -MAX_EXPONENTIAL \/ exp >= MAX_EXPONENTIAL))
        => (ret = None /\ pc \in {"ret23", "ret32"})

C1_Witness ==
    /\ Returned
    /\ exp = I32_MIN
    /\ ret = None
    /\ base = ONE

\* C2: pow(base, 0) returns exactly ONE for every base (0 and bases >= ONE
\* included); the check comes before every failure path.
C2_ZeroExponentIsOne ==
    (Returned /\ exp = 0)
        => /\ ret = Some(ONE)
           /\ pc = "ret17"
           /\ \A checks \in BOOLEAN : dlmm_pow(base, exp, checks) = Some(ONE)

C2_Witness ==
    /\ Returned
    /\ exp = 0
    /\ base = Zero
    /\ ret = Some(ONE)

\* C3 as stated: for every base in (0, 2^65) and every exp in [-18, 18],
\* pow yields a result strictly greater than 0.
C3_Original ==
    (Returned /\ Lt(Zero, base) /\ Lt(base, Pow2(65)) /\ InRange(exp))
        => (ret.kind = "Some" /\ Lt(Zero, ret.v))

\* C3 amended: for every base in [2^61, 2^65) (0.125 <= b < 2.0) and every
\* exp in [-18, 18], pow yields a result strictly greater than 0.
C3_PositiveOnEighthToTwo ==
    (Returned /\ Le(Pow2(61), base) /\ Lt(base, Pow2(65)) /\ InRange(exp))
        => (ret.kind = "Some" /\ Lt(Zero, ret.v))

C3_Witness ==
    /\ Returned
    /\ base = Pow2(61)
    /\ exp = 18
    /\ ret.kind = "Some"
    /\ Lt(Zero, ret.v)

\* C4: for every base and exp e in [1, 18] for which pow(b, e) and pow(b, -e)
\* both succeed, pow(b, -e) differs from floor((2^128-1) / pow(b, e)) by at
\* most 2 raw units.
C4_NegativeIsReciprocal ==
    (Returned /\ exp >= 1 /\ InRange(exp) /\ ret.kind = "Some")
        => LET n == pow(base, -exp)
           IN  n.kind = "Some"
                   => Le(AbsDiff(n.v, Div(U128_MAX, ret.v)), FromInt(2))

C4_Witness ==
    /\ Returned
    /\ exp = 18
    /\ base = Add(ONE, Shr(ONE, 10))
    /\ ret.kind = "Some"
    /\ pow(base, -exp).kind = "Some"

\* C5: after the normalisation of the base, the squared base is below ONE and
\* the running result at most ONE at every step of the unrolled loop, both
\* products fit 128 bits, and pow never returns from a failed checked_mul;
\* the loop of the dlmm pow, entered with the same normalised base, does not
\* overflow either.
C5_NoOverflowInLoop ==
    /\ pc \in {"loop", "tail"} => (Lt(squared_base, ONE) /\ Le(result, ONE))
    /\ pc = "loop" => /\ checked_mul(result, squared_base).kind = "Some"
                      /\ checked_mul(squared_base, squared_base).kind = "Some"
    /\ pc \notin {"ret50", "ret52"}
    /\ (pc = "loop" /\ bit = 0)
          => dlmm_pow_loop([squared_base |-> squared_base, result |-> ONE,
                            ok |-> TRUE], uexp, 0).ok

C5_Witness ==
    /\ pc = "loop"
    /\ bit = LAST_BIT
    /\ base = U128_MAX
    /\ BitSet(uexp, 0)

\* C6: pow never returns the value 0: a loop that ends with result == 0 makes
\* pow return None, and the final checked_div never divides by 0.
C6_NeverReturnsZero ==
    /\ ret.kind = "Some" => ret.v # Zero
    /\ (pc = "tail" /\ result = Zero) => pow_finish(Frame).ret = None
    /\ pc # "ret67"

C6_Witness ==
    /\ pc = "ret62"
    /\ base = Zero
    /\ exp < 0
    /\ ret = None

\* C7 as stated: for a base strictly greater than ONE and an in-range exp,
\* pow(base, exp) is a value strictly greater than ONE when exp > 0 and
\* strictly less than ONE when exp < 0.
C7_Original ==
    (Returned /\ Lt(ONE, base) /\ InRange(exp) /\ exp # 0)
        => /\ ret.kind = "Some"
           /\ exp > 0 => Lt(ONE, ret.v)
           /\ exp < 0 => Lt(ret.v, ONE)

\* C7 amended: for a base strictly greater than ONE and an in-range exp for
\* which pow succeeds, the value returned is strictly greater than ONE when
\* exp > 0 and strictly less than ONE when exp < 0.
C7_SideOfOne ==
    (Returned /\ Lt(ONE, base) /\ InRange(exp) /\ ret.kind = "Some")
        => /\ exp > 0 => Lt(ONE, ret.v)
           /\ exp < 0 => Lt(ret.v, ONE)

C7_Witness ==
    /\ Returned
    /\ base = Add(ONE, Shr(ONE, 10))
    /\ exp = -1
    /\ ret.kind = "Some"
    /\ Lt(ret.v, ONE)

(***************************************************************************)
(* Claims about the dlmm bin functions, checked under SpecBin              *)
(***************************************************************************)
PriceReturned == op = "get_price_from_id" /\ out.kind # "NotYet"

IdReturned == op = "get_id_from_price" /\ out.kind # "NotYet"

\* a Q64.64 value v is at most the Decimal p:  v / 2^64 <= p.m / 10^p.scale
Q64LeDec(v, p) == Le(Mul(v, BigPow(10, p.scale)), Mul(FromInt(p.m), ONE))

\* the Decimal p is at most the Q64.64 value v
DecLeQ64(p, v) == Le(Mul(FromInt(p.m), ONE), Mul(v, BigPow(10, p.scale)))

C9_Original ==
    (PriceReturned /\ out.kind = "Ok" /\ bin_step > 0 /\ active_id < I32_MAX)
        => LET n == get_price_from_id(active_id + 1, bin_step, overflow_checks)
           IN  n.kind = "Ok" => Lt(out.v, n.v)

\* C9 amended: for a positive bin step, get_price_from_id succeeds on every
\* bin id in [-18, 18] and is strictly increasing there: the price of each id
\* is below the price of its successor.
C9_StrictlyIncreasingNearZero ==
    (PriceReturned /\ bin_step > 0 /\ InRange(active_id))
        => /\ out.kind = "Ok"
           /\ InRange(active_id + 1)
                => LET n == get_price_from_id(active_id + 1, bin_step,
                                              overflow_checks)
                   IN  n.kind = "Ok" /\ Lt(out.v, n.v)

C9_Witness ==
    /\ PriceReturned
    /\ bin_step = 1
    /\ active_id = -18
    /\ out.kind = "Ok"
    /\ Lt(out.v, get_price_from_id(-17, bin_step, overflow_checks).v)

SInt(neg, mag) == [neg |-> neg /\ mag # Zero, mag |-> mag]

SAdd(a, b) ==
    IF a.neg = b.neg THEN SInt(a.neg, Add(a.mag, b.mag))
    ELSE IF Le(b.mag, a.mag) THEN SInt(a.neg, Sub(a.mag, b.mag))
    ELSE SInt(b.neg, Sub(b.mag, a.mag))

SMul(a, b) == SInt(a.neg # b.neg, Mul(a.mag, b.mag))

\* a >> n on a signed value: the arithmetic shift, which rounds down
SShr(a, n) ==
    IF a.neg
    THEN SInt(TRUE, Shr(Add(a.mag, Sub(Pow2(n), FromInt(1))), n))
    ELSE SInt(FALSE, Shr(a.mag, n))

\* `as i32`: the low 32 bits of the two's complement, read as signed
AsI32(a) ==
    LET lo31 == (Limb(a.mag, 1) + LIMB * Limb(a.mag, 2)
                    + LIMB * LIMB * Limb(a.mag, 3))
                + LIMB * LIMB * LIMB * (Limb(a.mag, 4) % 128)
        top == Limb(a.mag, 4) \div 128
    IN  IF ~a.neg THEN lo31 + top * I32_MIN
        ELSE IF top = 0 THEN -lo31
        ELSE IF lo31 = 0 THEN I32_MIN
        ELSE (I32_MAX - lo31) + 1

(***************************************************************************)
(* ora-whirlpool: tick index <-> sqrt price                                *)
(*                                                                         *)
(* The file uses tick_index_to_sqrt_price, BIT_PRECISION, LOG_B_2_X32 and  *)
(* the two error margins without defining them; they are modelled from the *)
(* specification's description of the tick grid (price = 1.0001^tick, a    *)
(* binary-exponentiation ladder for base 1.0001, Q64.64 square-root        *)
(* prices).  sqrt_price_to_tick_index is translated from the file.         *)
(***************************************************************************)
BIT_PRECISION == 14

\* 59543866431248
LOG_B_2_X32 == <<16, 215, 1, 163, 39, 54>>

\* 184467440737095516
LOG_B_P_ERR_MARGIN_LOWER_X64 == <<92, 143, 194, 245, 40, 92, 143, 2>>

\* 15793534762490258745
LOG_B_P_ERR_MARGIN_UPPER_X64 == <<57, 229, 3, 82, 48, 232, 45, 219>>

MIN_TICK_INDEX == -443636

MAX_TICK_INDEX == 443636

\* entry k + 1 is floor(2^96 * 1.0001^(2^k / 2))
POSITIVE_TICK_RATIO ==
    <<
       \* 79232123823359799118286999567
       <<15, 208, 90, 229, 42, 103, 17, 255, 214, 70, 3, 0, 1>>,
       \* 79236085330515764027303304731
       <<27, 158, 94, 41, 203, 16, 199, 186, 184, 141, 6, 0, 1>>,
       \* 79244008939048815603706035061
       <<117, 251, 48, 107, 247, 229, 171, 104, 156, 27, 13, 0, 1>>,
       \* 79259858533276714757314932305
       <<81, 110, 81, 48, 8, 203, 52, 162, 228, 55, 26, 0, 1>>,
       \* 79291567232598584799939703904
       <<96, 180, 90, 162, 173, 146, 14, 171, 120, 114, 52, 0, 1>>,
       \* 79355022692464371645785046466
       <<194, 253, 215, 165, 128, 84, 82, 10, 176, 239, 104, 0, 1>>,
       \* 79482085999252804386437311141
       <<165, 170, 157, 223, 57, 56, 23, 180, 99, 10, 210, 0, 1>>,
       \* 79736823300114093921829183326
       <<94, 223, 56, 151, 114, 215, 45, 116, 28, 193, 164, 1, 1>>,
       \* 80248749790819932309965073892
       <<228, 109, 13, 220, 166, 207, 100, 31, 195, 53, 76, 3, 1>>,
       \* 81282483887344747381513967011
       <<163, 213, 190, 129, 191, 255, 170, 200, 120, 75, 163, 6, 1>>,
       \* 83390072131320151908154831281
       <<177, 113, 231, 154, 206, 139, 205, 108, 164, 166, 114, 13, 1>>,
       \* 87770609709833776024991924138
       <<170, 127, 117, 220, 150, 133, 146, 99, 142, 37, 154, 27, 1>>,
       \* 97234110755111693312479820773
       <<229, 123, 209, 60, 159, 55, 248, 4, 218, 43, 46, 58, 1>>,
       \* 119332217159966728226237229890
       <<66, 171, 242, 119, 254, 168, 13, 158, 230, 75, 149, 129, 1>>,
       \* 179736315981702064433883588727
       <<119, 40, 37, 128, 144, 2, 90, 24, 93, 101, 194, 68, 2>>,
       \* 407748233172238350107850275304
       <<232, 121, 103, 97, 28, 91, 147, 159, 235, 110, 129, 37, 5>>,
       \* 2098478828474011932436660412517
       <<101, 224, 26, 211, 244, 79, 104, 81, 181, 0, 141, 124, 26>>,
       \* 55581415166113811149459800483533
       <<205, 102, 12, 89, 132, 120, 201, 247, 45, 11, 61, 137, 189, 2>>,
       \* 38992368544603139932233054999993551
       <<207, 220, 82, 33, 93, 185, 248, 140, 68, 158, 225, 225, 120, 130, 7>>
    >>
\* entry k + 1 is floor(2^64 / 1.0001^(2^k / 2))
NEGATIVE_TICK_RATIO ==
    <<
       \* 18445821805675392311
       <<55, 173, 111, 189, 51, 185, 252, 255>>,
       \* 18444899583751176498
       <<50, 65, 61, 55, 114, 114, 249, 255>>,
       \* 18443055278223354162
       <<50, 105, 101, 95, 15, 229, 242, 255>>,
       \* 18439367220385604838
       <<230, 228, 16, 126, 202, 202, 229, 255>>,
       \* 18431993317065449817
       <<89, 97, 15, 214, 67, 152, 203, 255>>,
       \* 18417254355718160513
       <<129, 192, 152, 250, 65, 59, 151, 255>>,
       \* 18387811781193591352
       <<56, 106, 201, 102, 100, 161, 46, 255>>,
       \* 18329067761203520168
       <<168, 162, 153, 106, 4, 238, 93, 254>>,
       \* 18212142134806087854
       <<174, 136, 10, 144, 199, 134, 190, 252>>,
       \* 17980523815641551639
       <<23, 19, 196, 58, 37, 167, 135, 249>>,
       \* 17526086738831147013
       <<5, 0, 183, 34, 8, 43, 57, 243>>,
       \* 16651378430235024244
       <<116, 155, 194, 162, 117, 148, 21, 231>>,
       \* 15030750278693429944
       <<184, 34, 32, 253, 189, 243, 151, 208>>,
       \* 12247334978882834399
       <<223, 15, 135, 45, 70, 70, 247, 169>>,
       \* 8131365268884726200
       <<184, 161, 210, 86, 161, 105, 216, 112>>,
       \* 3584323654723342297
       <<217, 143, 208, 151, 95, 19, 190, 49>>,
       \* 696457651847595233
       <<225, 132, 122, 91, 139, 80, 170, 9>>,
       \* 26294789957452057
       <<25, 129, 219, 222, 248, 106, 93>>,
       \* 37481735321082
       <<250, 245, 132, 229, 22, 34>>
    >>

LADDER_BITS == 19

RECURSIVE tick_ladder(_, _, _, _, _)
\* for each bit k of a from k on that is set: ratio = (ratio * table[k]) >> shift
tick_ladder(ratio, a, k, table, shift) ==
    IF k >= LADDER_BITS THEN ratio
    ELSE Bind(IF (a \div IntPow2(k)) % 2 = 1
              THEN Shr(Mul(ratio, table[k + 1]), shift)
              ELSE ratio,
              LAMBDA x : tick_ladder(x, a, k + 1, table, shift))

tick_index_to_sqrt_price(tick) ==
    IF tick >= 0
    THEN Shr(tick_ladder(IF tick % 2 = 1 THEN POSITIVE_TICK_RATIO[1]
                                         ELSE Pow2(96),
                         tick, 1, POSITIVE_TICK_RATIO, 96), 32)
    ELSE tick_ladder(IF (-tick) % 2 = 1 THEN NEGATIVE_TICK_RATIO[1]
                                        ELSE Pow2(64),
                     -tick, 1, NEGATIVE_TICK_RATIO, 64)

MIN_SQRT_PRICE_X64 == tick_index_to_sqrt_price(MIN_TICK_INDEX)

MAX_SQRT_PRICE_X64 == tick_index_to_sqrt_price(MAX_TICK_INDEX)

RECURSIVE BitLen(_)
BitLen(n) == IF n = 0 THEN 0 ELSE 1 + BitLen(n \div 2)

\* u128::leading_zeros
leading_zeros(a) == 128 - (IF a = Zero THEN 0
                           ELSE 8 * (Len(a) - 1) + BitLen(a[Len(a)]))

\* line 51: (msb as i128 - 64) << 32
log2p_integer_x32(msb) ==
    SInt(msb < 64, Shl(FromInt(IF msb < 64 THEN 64 - msb ELSE msb - 64), 32))

\* lines 62-66
normalise_r_one_bit_short(s, msb) ==
    IF msb >= 64 THEN Shr(s, msb - 62) ELSE Shl(s, 62 - msb)

normalise_r(s, msb) ==
    IF msb >= 64 THEN Shr(s, msb - 63) ELSE Shl(s, 63 - msb)

\* lines 69-74, one turn of the loop on [r, bit, precision, fraction]
log2_step(st) ==
    Bind(Mul(st.r, st.r), LAMBDA sq :
      Bind(Shr(sq, 127), LAMBDA is_r_more_than_two :
        [r         |-> Shr(sq, 63 + ToInt(is_r_more_than_two)),
         bit       |-> Shr(st.bit, 1),
         precision |-> st.precision + 1,
         fraction  |-> Add(st.fraction, Mul(st.bit, is_r_more_than_two))]))

RECURSIVE log2_loop(_)
\* line 68: while bit > 0 && precision < BIT_PRECISION
log2_loop(st) ==
    IF st.bit # Zero /\ st.precision < BIT_PRECISION
    THEN Bind(log2_step(st), LAMBDA t : log2_loop(t))
    ELSE st

\* lines 55-78: log2p_x32
log2p_x32(s, msb) ==
    Bind(log2_loop([r |-> normalise_r(s, msb), bit |-> Pow2(63),
                    precision |-> 0, fraction |-> Zero]),
         LAMBDA st : SAdd(log2p_integer_x32(msb),
                          SInt(FALSE, Shr(st.fraction, 32))))

\* line 84
tick_low(logbp_x64) ==
    AsI32(SShr(SAdd(logbp_x64, SInt(TRUE, LOG_B_P_ERR_MARGIN_LOWER_X64)), 64))

\* line 85
tick_high_no_margin(logbp_x64) == AsI32(SShr(logbp_x64, 64))

tick_high(logbp_x64) ==
    AsI32(SShr(SAdd(logbp_x64, SInt(FALSE, LOG_B_P_ERR_MARGIN_UPPER_X64)), 64))

\* lines 87-100
select_tick_strict(low, high, s) ==
    IF low = high THEN low
    ELSE IF Lt(tick_index_to_sqrt_price(high), s) THEN high
    ELSE low

select_tick(low, high, s) ==
    IF low = high THEN low
    ELSE IF Le(tick_index_to_sqrt_price(high), s) THEN high
    ELSE low

\* lines 81-85: the two candidates, as [low, high]
tick_candidates(s) ==
    Bind(128 - leading_zeros(s) - 1, LAMBDA msb :
      Bind(SMul(log2p_x32(s, msb), SInt(FALSE, LOG_B_2_X32)), LAMBDA logbp_x64 :
        [low |-> tick_low(logbp_x64), high |-> tick_high(logbp_x64)]))

sqrt_price_to_tick_index(s) ==
    Bind(tick_candidates(s), LAMBDA c : select_tick(c.low, c.high, s))

(***************************************************************************)
(* SpecTick: a tick is turned into its sqrt price, then a sqrt price at or *)
(* next to it, or half way to the next tick's, is turned back into a tick  *)
(***************************************************************************)
MaxTick == 40

FarTicks == {MIN_TICK_INDEX, MIN_TICK_INDEX + 1, -300000, -131073, -65536,
             -32768, -1000, 1000, 32767, 65536, 131071, 262144, 300000,
             MAX_TICK_INDEX - 1, MAX_TICK_INDEX}

TickInputs == ((-MaxTick)..MaxTick) \cup FarTicks

\* the sqrt prices asked about once tick's price p is known: p, its two
\* neighbours and the midpoint to the next tick's price, kept inside
\* [MIN_SQRT_PRICE_X64, MAX_SQRT_PRICE_X64]
PriceQueries(tick, p) ==
    {s \in {Sub(p, FromInt(1)), p, Add(p, FromInt(1)),
            Shr(Add(p, tick_index_to_sqrt_price(tick + 1)), 1)} :
        Le(MIN_SQRT_PRICE_X64, s) /\ Le(s, MAX_SQRT_PRICE_X64)}

TickInit ==
    /\ PowIdle
    /\ BinIdle
    /\ QuoteIdle
    /\ FeeIdle
    /\ BotIdle
    /\ tick_index \in TickInputs
    /\ tick_pc = "price"
    /\ tick_price = Zero
    /\ sqrt_price = Zero
    /\ tick_ret = 0

TickIndexToSqrtPrice ==
    /\ tick_pc = "price"
    /\ tick_price' = tick_index_to_sqrt_price(tick_index)
    /\ tick_pc' = "index"
    /\ UNCHANGED <<tick_index, sqrt_price, tick_ret>>
    /\ UNCHANGED <<powVars, binVars, quoteVars, feeVars, botVars>>

SqrtPriceToTickIndex ==
    /\ tick_pc = "index"
    /\ \E s \in PriceQueries(tick_index, tick_price) :
          /\ sqrt_price' = s
          /\ tick_ret' = sqrt_price_to_tick_index(s)
    /\ tick_pc' = "done"
    /\ UNCHANGED <<tick_index, tick_price>>
    /\ UNCHANGED <<powVars, binVars, quoteVars, feeVars, botVars>>

TickNext == TickIndexToSqrtPrice \/ SqrtPriceToTickIndex

SpecTick == TickInit /\ [][TickNext]_vars

TickReturned == tick_pc = "done"

(***************************************************************************)
(* Claims about the tick conversions (ora-whirlpool/src/math.rs), checked  *)
(* under SpecTick                                                          *)
(***************************************************************************)

\* C11: sqrt_price_to_tick_index(tick_index_to_sqrt_price(t)) = t for every
\* tick t in [-443636, 443636].
C11_RoundTrip ==
    (TickReturned /\ sqrt_price = tick_price
        /\ MIN_TICK_INDEX <= tick_index /\ tick_index <= MAX_TICK_INDEX)
        => tick_ret = tick_index

C11_Witness ==
    /\ TickReturned
    /\ sqrt_price = tick_price
    /\ tick_index = MIN_TICK_INDEX
    /\ tick_ret = MIN_TICK_INDEX

\* C12: the tick returned is one of the two candidates: their common value
\* when they are equal, otherwise tick_high exactly when the sqrt price of
\* tick_high is at most the input and tick_low when it is not; so the result
\* r is the floor tick: sqrtPrice(r) <= input < sqrtPrice(r + 1).
C12_FloorTick ==
    TickReturned =>
        Bind(tick_candidates(sqrt_price), LAMBDA c :
            /\ tick_ret \in {c.low, c.high}
            /\ (c.low = c.high => tick_ret = c.low)
            /\ (c.low # c.high =>
                  (tick_ret = c.high
                     <=> Le(tick_index_to_sqrt_price(c.high), sqrt_price)))
            /\ Le(tick_index_to_sqrt_price(tick_ret), sqrt_price)
            /\ Lt(sqrt_price, tick_index_to_sqrt_price(tick_ret + 1)))

C12_Witness ==
    /\ TickReturned
    /\ sqrt_price # tick_price
    /\ tick_ret = tick_index - 1
    /\ tick_candidates(sqrt_price).low # tick_candidates(sqrt_price).high

(***************************************************************************)
(* pump-amm: constant-product quotes on U256 (src/lib/pump-amm/src/math.rs)*)
(*                                                                         *)
(* U256 is the uint crate's 4-word integer: *, + and - panic on overflow   *)
(* in every build, / and % panic on a zero divisor.  A value whose         *)
(* computation panicked is Unwound; a function that met one returns Panic. *)
(* slippage is an f64 in the source and a whole number of percent here.    *)
(***************************************************************************)
PRECISION == 1000000000

MAX_FEE_BPS == 10000

U256_LIMBS == 32

Unwound == <<-1>>

UMul(a, b) ==
    IF a = Unwound \/ b = Unwound THEN Unwound
    ELSE Bind(Mul(a, b), LAMBDA p : IF Len(p) > U256_LIMBS THEN Unwound ELSE p)

UAdd(a, b) ==
    IF a = Unwound \/ b = Unwound THEN Unwound
    ELSE Bind(Add(a, b), LAMBDA p : IF Len(p) > U256_LIMBS THEN Unwound ELSE p)

USub(a, b) ==
    IF a = Unwound \/ b = Unwound THEN Unwound
    ELSE IF Lt(a, b) THEN Unwound
    ELSE Sub(a, b)

UDiv_rounded_up(a, b) ==
    IF a = Unwound \/ b = Unwound \/ b = Zero THEN Unwound
    ELSE Div(Add(a, Sub(b, FromInt(1))), b)

UDiv(a, b) ==
    IF a = Unwound \/ b = Unwound \/ b = Zero THEN Unwound
    ELSE Div(a, b)

URem_always_zero(a, b) ==
    IF a = Unwound \/ b = Unwound \/ b = Zero THEN Unwound ELSE Zero

URem(a, b) ==
    IF a = Unwound \/ b = Unwound \/ b = Zero THEN Unwound
    ELSE Bind(Div(a, b), LAMBDA q : Sub(a, Mul(q, b)))

\* lines 15-18
fee_rounded_up(a, bps) ==
    UDiv(UAdd(UMul(a, bps), FromInt(MAX_FEE_BPS - 1)), FromInt(MAX_FEE_BPS))

fee_waived(a, bps) == IF a = Unwound \/ bps = Unwound THEN Unwound ELSE Zero

fee(a, bps) == UDiv(UMul(a, bps), FromInt(MAX_FEE_BPS))

\* lines 220-227
ceil_div_floor(numerator, denominator) == UDiv(numerator, denominator)

ceil_div(numerator, denominator) ==
    Bind(UDiv(numerator, denominator), LAMBDA q :
        IF q = Unwound THEN Unwound
        ELSE IF URem(numerator, denominator) # Zero THEN UAdd(q, FromInt(1))
        ELSE q)

\* lines 32, 84, 132, 183: base_reserve.is_zero() || quote_reserve.is_zero()
reserves_empty_base_only(br, qr) == br = Zero

reserves_empty(br, qr) == br = Zero \/ qr = Zero

\* lines 53-57, 91-95, 140-144, 195-199: the creator tier, zero when
\* coin_creator == Pubkey::default()
creator_tier_never_waived(v, dflt) == v

creator_tier(v, dflt) == IF dflt THEN Zero ELSE v

\* lines 89-95, 140-144
total_fee_bps_no_protocol(lp, pr, cr, dflt) == UAdd(lp, creator_tier(cr, dflt))

total_fee_bps(lp, pr, cr, dflt) == UAdd(UAdd(lp, pr), creator_tier(cr, dflt))

\* lines 51-57, 193-201: lp_fee + protocol_fee + coin_creator_fee
total_fee_combined(a, lp, pr, cr, dflt) == fee(a, total_fee_bps(lp, pr, cr, dflt))

total_fee_never_waived(a, lp, pr, cr, dflt) ==
    UAdd(UAdd(fee(a, lp), fee(a, pr)), fee(a, cr))

total_fee(a, lp, pr, cr, dflt) ==
    UAdd(UAdd(fee(a, lp), fee(a, pr)),
         IF dflt THEN Zero ELSE fee(a, cr))

\* lines 62, 112: ((1.0 + slippage / 100.0) * PRECISION as f64).round() as u64
\* the float product is within 1e-6 of (100 + s) * 10^7, so round() gives that
\* integer; `as u64` turns a negative float into 0
slippage_factor_up_subtracts(s) ==
    IF 100 - s <= 0 THEN Zero
    ELSE Mul(FromInt(100 - s), FromInt(PRECISION \div 100))

slippage_factor_up(s) ==
    IF 100 + s <= 0 THEN Zero
    ELSE Mul(FromInt(100 + s), FromInt(PRECISION \div 100))

\* lines 162, 209: ((1.0 - slippage / 100.0) * PRECISION as f64).round() as u64
slippage_factor_down(s) ==
    IF 100 - s <= 0 THEN Zero
    ELSE Mul(FromInt(100 - s), FromInt(PRECISION \div 100))

\* lines 63, 113, 163, 210: (x * U256::from(slippage_factor)) / U256::from(PRECISION)
with_slippage(x, factor) == UDiv(UMul(x, factor), FromInt(PRECISION))

\* Ok(result), unless a panic happened on the way to one of its fields
Finish(r) == IF \E f \in DOMAIN r : r[f] = Unwound THEN Panic ELSE Ok(r)

\* lines 21-70
buy_base_input_internal(a, s, br, qr, lp, pr, cr, dflt) ==
    IF reserves_empty(br, qr) THEN Err
    ELSE IF Lt(br, a) THEN Err
    ELSE Bind(UMul(qr, a), LAMBDA numerator :
      Bind(USub(br, a), LAMBDA denominator :
        IF numerator = Unwound THEN Panic
        ELSE IF denominator = Zero THEN Err
        ELSE Bind(ceil_div(numerator, denominator), LAMBDA quote_amount_in :
          Bind(UAdd(quote_amount_in,
                    total_fee(quote_amount_in, lp, pr, cr, dflt)),
               LAMBDA total_quote :
            Finish([internal_quote_amount |-> quote_amount_in,
                    ui_quote |-> total_quote,
                    max_quote |-> with_slippage(total_quote,
                                                slippage_factor_up(s))])))))

\* lines 73-120
buy_quote_input_internal(a, s, br, qr, lp, pr, cr, dflt) ==
    IF reserves_empty(br, qr) THEN Err
    ELSE Bind(UAdd(FromInt(MAX_FEE_BPS), total_fee_bps(lp, pr, cr, dflt)),
              LAMBDA denominator :
      Bind(UDiv(UMul(a, FromInt(MAX_FEE_BPS)), denominator),
           LAMBDA effective_quote :
        Bind(UAdd(qr, effective_quote), LAMBDA denominator_effective :
          IF effective_quote = Unwound \/ denominator_effective = Unwound
          THEN Panic
          ELSE IF UMul(br, effective_quote) = Unwound THEN Panic
          ELSE IF denominator_effective = Zero THEN Err
          ELSE Finish([base |-> UDiv(UMul(br, effective_quote),
                                     denominator_effective),
                       internal_quote_without_fees |-> effective_quote,
                       max_quote |-> with_slippage(a, slippage_factor_up(s))]))))

\* lines 122-170
sell_quote_input_internal(a, s, br, qr, lp, pr, cr, dflt) ==
    IF reserves_empty(br, qr) THEN Err
    ELSE IF Lt(qr, a) THEN Err
    ELSE Bind(USub(FromInt(MAX_FEE_BPS), total_fee_bps(lp, pr, cr, dflt)),
              LAMBDA denominator :
      Bind(ceil_div(UMul(a, FromInt(MAX_FEE_BPS)), denominator),
           LAMBDA raw_quote :
        IF raw_quote = Unwound THEN Panic
        ELSE IF Le(qr, raw_quote) THEN Err
        ELSE Finish([base |-> ceil_div(UMul(br, raw_quote),
                                       USub(qr, raw_quote)),
                     internal_raw_quote |-> raw_quote,
                     min_quote |-> with_slippage(a, slippage_factor_down(s))])))

\* lines 172-217
sell_base_input_internal(a, s, br, qr, lp, pr, cr, dflt) ==
    IF reserves_empty(br, qr) THEN Err
    ELSE Bind(UDiv(UMul(qr, a), UAdd(br, a)), LAMBDA quote_amount_out :
      Bind(total_fee(quote_amount_out, lp, pr, cr, dflt), LAMBDA fees :
        IF quote_amount_out = Unwound \/ fees = Unwound THEN Panic
        ELSE IF Lt(quote_amount_out, fees) THEN Err
        ELSE Bind(USub(quote_amount_out, fees), LAMBDA final_quote :
          Finish([ui_quote |-> final_quote,
                  min_quote |-> with_slippage(final_quote,
                                              slippage_factor_down(s)),
                  internal_quote_amount_out |-> quote_amount_out]))))

(***************************************************************************)
(* SpecQuote: one call of one of the four quote functions.  Amounts and    *)
(* reserves are token amounts (u64 values held in a U256); fee tiers are   *)
(* basis points, schedules summing to 10000 and more included.             *)
(***************************************************************************)
U64_MAX == Sub(Pow2(64), FromInt(1))

MaxAmount == 3

AmountInputs ==
    {FromInt(n) : n \in 0..MaxAmount}
        \cup {FromInt(150), FromInt(999), FromInt(1000), FromInt(1001), U64_MAX}

BaseReserveInputs == {Zero, FromInt(1000), U64_MAX}

QuoteReserveInputs == {Zero, FromInt(10), FromInt(1000), U64_MAX}

\* <<lp_fee_bps, protocol_fee_bps, coin_creator_fee_bps>>
FeeInputs == {<<0, 0, 0>>, <<20, 5, 5>>, <<3333, 3333, 3333>>,
              <<5000, 4000, 1000>>, <<5000, 5000, 5000>>}

SlippageInputs == {0, 1, 100, 150}

QuoteOps == {"buy_base_input_internal", "buy_quote_input_internal",
             "sell_quote_input_internal", "sell_base_input_internal"}

QuoteInit ==
    /\ PowIdle
    /\ BinIdle
    /\ TickIdle
    /\ FeeIdle
    /\ BotIdle
    /\ quote_op \in QuoteOps
    /\ amount \in AmountInputs
    /\ slippage \in SlippageInputs
    /\ \/ /\ base_reserve \in BaseReserveInputs
          /\ quote_reserve \in QuoteReserveInputs
       \/ /\ base_reserve = FromInt(1000000)
          /\ quote_reserve = Mul(FromInt(30000), FromInt(1000000))
    /\ \E f \in FeeInputs :
          /\ lp_fee_bps = FromInt(f[1])
          /\ protocol_fee_bps = FromInt(f[2])
          /\ coin_creator_fee_bps = FromInt(f[3])
    /\ creator_is_default \in BOOLEAN
    /\ quote_ret = NotYet

QuoteCall(name, r) ==
    /\ quote_op = name
    /\ quote_ret = NotYet
    /\ quote_ret' = r
    /\ UNCHANGED <<quote_op, amount, slippage, base_reserve, quote_reserve,
                   lp_fee_bps, protocol_fee_bps, coin_creator_fee_bps,
                   creator_is_default>>
    /\ UNCHANGED <<powVars, binVars, tickVars, feeVars, botVars>>

BuyBaseInput ==
    QuoteCall("buy_base_input_internal",
              buy_base_input_internal(amount, slippage, base_reserve,
                  quote_reserve, lp_fee_bps, protocol_fee_bps,
                  coin_creator_fee_bps, creator_is_default))

BuyQuoteInput ==
    QuoteCall("buy_quote_input_internal",
              buy_quote_input_internal(amount, slippage, base_reserve,
                  quote_reserve, lp_fee_bps, protocol_fee_bps,
                  coin_creator_fee_bps, creator_is_default))

SellQuoteInput ==
    QuoteCall("sell_quote_input_internal",
              sell_quote_input_internal(amount, slippage, base_reserve,
                  quote_reserve, lp_fee_bps, protocol_fee_bps,
                  coin_creator_fee_bps, creator_is_default))

SellBaseInput ==
    QuoteCall("sell_base_input_internal",
              sell_base_input_internal(amount, slippage, base_reserve,
                  quote_reserve, lp_fee_bps, protocol_fee_bps,
                  coin_creator_fee_bps, creator_is_default))

QuoteNext == BuyBaseInput \/ BuyQuoteInput \/ SellQuoteInput \/ SellBaseInput

SpecQuote == QuoteInit /\ [][QuoteNext]_vars

QuoteReturned(name) == quote_op = name /\ quote_ret # NotYet

\* lp_fee_bps + protocol_fee_bps + the creator tier when it applies
FeeBps ==
    ToInt(lp_fee_bps) + ToInt(protocol_fee_bps)
        + (IF creator_is_default THEN 0 ELSE ToInt(coin_creator_fee_bps))

(***************************************************************************)
(* Claims about the quote functions (pump-amm/src/math.rs), checked under  *)
(* SpecQuote                                                               *)
(***************************************************************************)

\* C13: each of the four quote functions returns a failure and no result
\* whenever base_reserve = 0 or quote_reserve = 0, whatever the other inputs;
\* the check comes before any division, so no call panics on such a pool.
C13_EmptyPoolFails ==
    (quote_ret # NotYet /\ (base_reserve = Zero \/ quote_reserve = Zero))
        => quote_ret = Err

C13_Witness ==
    /\ QuoteReturned("sell_quote_input_internal")
    /\ base_reserve # Zero
    /\ quote_reserve = Zero
    /\ FeeBps >= MAX_FEE_BPS
    /\ quote_ret = Err

\* ceil(n / d) for d > 0
Ceil(n, d) == Div(Add(n, Sub(d, FromInt(1))), d)

\* the sum over the fee tiers of the call of floor(g * bps / 10000)
TierFees(g) ==
    Add(Add(Div(Mul(g, lp_fee_bps), FromInt(10000)),
            Div(Mul(g, protocol_fee_bps), FromInt(10000))),
        IF creator_is_default THEN Zero
        ELSE Div(Mul(g, coin_creator_fee_bps), FromInt(10000)))

NonEmptyPool == base_reserve # Zero /\ quote_reserve # Zero

\* C14 as stated: on a non-empty pool buy_base_input_internal fails exactly
\* when baseIn > baseReserve (and succeeds for every baseIn <= baseReserve).
C14_Original ==
    (QuoteReturned("buy_base_input_internal") /\ NonEmptyPool)
        => (quote_ret.kind # "Ok" <=> Lt(base_reserve, amount))

\* C14 (amended): on a non-empty pool buy_base_input_internal fails exactly
\* when baseIn >= baseReserve; for every baseIn < baseReserve it succeeds with
\* grossQuoteIn = ceil(quoteReserve * baseIn / (baseReserve - baseIn)) and
\* total cost = grossQuoteIn + the sum of the individually floored tier fees.
C14_FailsAtOrAboveReserve ==
    (QuoteReturned("buy_base_input_internal") /\ NonEmptyPool)
        => /\ quote_ret = Err <=> Le(base_reserve, amount)
           /\ Lt(amount, base_reserve) =>
                /\ quote_ret.kind = "Ok"
                /\ quote_ret.v.internal_quote_amount
                      = Ceil(Mul(quote_reserve, amount),
                             Sub(base_reserve, amount))
                /\ quote_ret.v.ui_quote
                      = Add(quote_ret.v.internal_quote_amount,
                            TierFees(quote_ret.v.internal_quote_amount))

C14_Witness ==
    /\ QuoteReturned("buy_base_input_internal")
    /\ amount = FromInt(999)
    /\ base_reserve = FromInt(1000)
    /\ quote_reserve = FromInt(10)
    /\ FeeBps = 30
    /\ quote_ret.kind = "Ok"
    /\ quote_ret.v.internal_quote_amount = FromInt(9990)
    /\ quote_ret.v.ui_quote = FromInt(10017)

\* C15: on a non-empty pool buy_quote_input_internal returns
\* effectiveQuote = floor(quoteIn * 10000 / (10000 + totalFeeBps)) and
\* baseOut = floor(baseReserve * effectiveQuote / (quoteReserve + effectiveQuote)),
\* totalFeeBps being the sum of the applicable fee tiers.
C15_BuyQuoteRoundsDown ==
    (QuoteReturned("buy_quote_input_internal") /\ NonEmptyPool)
        => /\ quote_ret.kind = "Ok"
           /\ quote_ret.v.internal_quote_without_fees
                 = Div(Mul(amount, FromInt(10000)), FromInt(10000 + FeeBps))
           /\ quote_ret.v.base
                 = Div(Mul(base_reserve,
                           quote_ret.v.internal_quote_without_fees),
                       Add(quote_reserve,
                           quote_ret.v.internal_quote_without_fees))

C15_Witness ==
    /\ QuoteReturned("buy_quote_input_internal")
    /\ amount = FromInt(1000)
    /\ base_reserve = FromInt(1000)
    /\ quote_reserve = FromInt(1000)
    /\ FeeBps = 30
    /\ quote_ret.kind = "Ok"
    /\ quote_ret.v.internal_quote_without_fees = FromInt(997)
    /\ quote_ret.v.base = FromInt(499)

\* C16: sell_quote_input_internal returns a failure value, and neither
\* divides by zero nor underflows 10000 - totalFeeBps, whenever
\* lpFeeBps + protocolFeeBps + the applicable creatorFeeBps >= 10000.
C16_FeeExceedsMaxFails ==
    (QuoteReturned("sell_quote_input_internal") /\ FeeBps >= MAX_FEE_BPS)
        => quote_ret = Err

\* C17: on a non-empty pool and with totalFeeBps < 10000,
\* sell_quote_input_internal fails when quoteOut > quoteReserve, computes
\* rawQuote = ceil(quoteOut * 10000 / (10000 - totalFeeBps)), fails when
\* rawQuote >= quoteReserve and otherwise returns
\* baseIn = ceil(baseReserve * rawQuote / (quoteReserve - rawQuote)).
C17_SellQuoteRoundsUp ==
    (QuoteReturned("sell_quote_input_internal") /\ NonEmptyPool
        /\ FeeBps < MAX_FEE_BPS)
        => Bind(Ceil(Mul(amount, FromInt(10000)), FromInt(10000 - FeeBps)),
                LAMBDA raw :
                  IF Lt(quote_reserve, amount) \/ Le(quote_reserve, raw)
                  THEN quote_ret = Err
                  ELSE /\ quote_ret.kind = "Ok"
                       /\ quote_ret.v.internal_raw_quote = raw
                       /\ quote_ret.v.base
                             = Ceil(Mul(base_reserve, raw),
                                    Sub(quote_reserve, raw)))

C17_Witness ==
    /\ QuoteReturned("sell_quote_input_internal")
    /\ amount = FromInt(3)
    /\ base_reserve = FromInt(1000)
    /\ quote_reserve = FromInt(1000)
    /\ FeeBps = 30
    /\ quote_ret.kind = "Ok"
    /\ quote_ret.v.internal_raw_quote = FromInt(4)
    /\ quote_ret.v.base = FromInt(5)

\* C18: on a non-empty pool sell_base_input_internal computes
\* grossQuoteOut = floor(quoteReserve * baseIn / (baseReserve + baseIn)) and
\* totalFee as the sum of the individually floored tier fees; it fails exactly
\* when totalFee > grossQuoteOut and otherwise returns
\* netQuoteOut = grossQuoteOut - totalFee.
C18_SellBaseNetOfFees ==
    (QuoteReturned("sell_base_input_internal") /\ NonEmptyPool)
        => Bind(Div(Mul(quote_reserve, amount), Add(base_reserve, amount)),
                LAMBDA gross :
                  IF Lt(gross, TierFees(gross))
                  THEN quote_ret = Err
                  ELSE /\ quote_ret.kind = "Ok"
                       /\ quote_ret.v.internal_quote_amount_out = gross
                       /\ quote_ret.v.ui_quote = Sub(gross, TierFees(gross)))

C18_Witness ==
    /\ QuoteReturned("sell_base_input_internal")
    /\ amount = FromInt(1000)
    /\ base_reserve = FromInt(1000)
    /\ quote_reserve = FromInt(1000)
    /\ FeeBps = 30
    /\ quote_ret.kind = "Ok"
    /\ quote_ret.v.internal_quote_amount_out = FromInt(500)
    /\ quote_ret.v.ui_quote = FromInt(499)

\* C19: a quote function fails, returning no result, when the sign of its
\* slippage factor would invert: the two sell functions fail for
\* slippagePercent >= 100.
C19_InvalidSlippageFails ==
    ((QuoteReturned("sell_quote_input_internal")
        \/ QuoteReturned("sell_base_input_internal")) /\ slippage >= 100)
        => quote_ret.kind # "Ok"

\* C20 as stated: when sell_base_input_internal(x) succeeds with net quote n
\* and sell_quote_input_internal(n) succeeds on the same pool and fees, the
\* base it requires is at least x.
C20_Original ==
    (QuoteReturned("sell_base_input_internal") /\ quote_ret.kind = "Ok")
        => Bind(sell_quote_input_internal(quote_ret.v.ui_quote, slippage,
                    base_reserve, quote_reserve, lp_fee_bps, protocol_fee_bps,
                    coin_creator_fee_bps, creator_is_default),
                LAMBDA r : r.kind = "Ok" => Le(amount, r.v.base))

\* C20 (amended): when sell_quote_input_internal(n) succeeds with base amount
\* y, sell_base_input_internal(y) on the same pool and fees succeeds with a
\* net quote of at least n.
C20_RequiredBaseNetsTheQuote ==
    (QuoteReturned("sell_quote_input_internal") /\ quote_ret.kind = "Ok")
        => Bind(sell_base_input_internal(quote_ret.v.base, slippage,
                    base_reserve, quote_reserve, lp_fee_bps, protocol_fee_bps,
                    coin_creator_fee_bps, creator_is_default),
                LAMBDA r : r.kind = "Ok" /\ Le(amount, r.v.ui_quote))

C20_Witness ==
    /\ QuoteReturned("sell_quote_input_internal")
    /\ amount = FromInt(150)
    /\ base_reserve = FromInt(1000)
    /\ quote_reserve = FromInt(1000)
    /\ FeeBps = 0
    /\ quote_ret.kind = "Ok"
    /\ quote_ret.v.base = FromInt(177)
    /\ sell_base_input_internal(quote_ret.v.base, slippage, base_reserve,
            quote_reserve, lp_fee_bps, protocol_fee_bps, coin_creator_fee_bps,
            creator_is_default).v.ui_quote = FromInt(150)

QuoteOk(name) == QuoteReturned(name) /\ quote_ret.kind = "Ok"

\* C21: the pool never loses value to rounding: for every successful quote,
\* applying the quoted pre-fee swap to the reserves does not decrease their
\* product.  Buy: (baseReserve - baseOut) * (quoteReserve + quoteIn)
\* >= baseReserve * quoteReserve; sell: (baseReserve + baseIn)
\* * (quoteReserve - quoteOut) >= baseReserve * quoteReserve.
C21_ProductNeverDecreases ==
    Bind(Mul(base_reserve, quote_reserve), LAMBDA k :
      /\ QuoteOk("buy_base_input_internal") =>
            Le(k, Mul(Sub(base_reserve, amount),
                      Add(quote_reserve, quote_ret.v.internal_quote_amount)))
      /\ QuoteOk("buy_quote_input_internal") =>
            Le(k, Mul(Sub(base_reserve, quote_ret.v.base),
                      Add(quote_reserve,
                          quote_ret.v.internal_quote_without_fees)))
      /\ QuoteOk("sell_quote_input_internal") =>
            Le(k, Mul(Add(base_reserve, quote_ret.v.base),
                      Sub(quote_reserve, quote_ret.v.internal_raw_quote)))
      /\ QuoteOk("sell_base_input_internal") =>
            Le(k, Mul(Add(base_reserve, amount),
                      Sub(quote_reserve,
                          quote_ret.v.internal_quote_amount_out))))

C21_Witness ==
    /\ QuoteOk("sell_quote_input_internal")
    /\ amount = FromInt(3)
    /\ base_reserve = FromInt(1000)
    /\ quote_reserve = FromInt(10)
    /\ FeeBps = 0
    /\ quote_ret.v.internal_raw_quote = FromInt(3)
    /\ quote_ret.v.base = FromInt(429)

\* the function called name, applied to the arguments
quote_call(name, a, s, br, qr, lp, pr, cr, dflt) ==
    CASE name = "buy_base_input_internal" ->
            buy_base_input_internal(a, s, br, qr, lp, pr, cr, dflt)
      [] name = "buy_quote_input_internal" ->
            buy_quote_input_internal(a, s, br, qr, lp, pr, cr, dflt)
      [] name = "sell_quote_input_internal" ->
            sell_quote_input_internal(a, s, br, qr, lp, pr, cr, dflt)
      [] name = "sell_base_input_internal" ->
            sell_base_input_internal(a, s, br, qr, lp, pr, cr, dflt)

\* C22: with the default creator address each quote function returns exactly
\* what it returns for coin_creator_fee_bps = 0, whatever value is passed;
\* with another address the creator tier is charged like the other tiers
\* (exchanging it with the protocol tier changes nothing).
C22_CreatorTierWaivedForDefault ==
    quote_ret # NotYet =>
        IF creator_is_default
        THEN quote_ret = quote_call(quote_op, amount, slippage, base_reserve,
                            quote_reserve, lp_fee_bps, protocol_fee_bps,
                            Zero, FALSE)
        ELSE quote_ret = quote_call(quote_op, amount, slippage, base_reserve,
                            quote_reserve, lp_fee_bps, coin_creator_fee_bps,
                            protocol_fee_bps, FALSE)

C22_Witness ==
    /\ QuoteOk("buy_base_input_internal")
    /\ creator_is_default
    /\ lp_fee_bps = FromInt(20)
    /\ coin_creator_fee_bps = FromInt(5)
    /\ amount = FromInt(999)
    /\ base_reserve = FromInt(1000)
    /\ quote_reserve = FromInt(10)
    /\ quote_ret.v.ui_quote = FromInt(10013)

\* C23: with baseReserve = 1_000_000, quoteReserve = 30_000_000_000,
\* lpFeeBps = 20, protocolFeeBps = 5 and no creator fee,
\* sell_base_input_internal(1000) succeeds with a net quote strictly less
\* than floor(quoteReserve * 1000 / (baseReserve + 1000)); in general the net
\* quote is at most the gross quote, strictly less whenever some tier's
\* floored fee is at least 1.
C23_NetBelowGross ==
    QuoteReturned("sell_base_input_internal") =>
        Bind(Div(Mul(quote_reserve, amount), Add(base_reserve, amount)),
             LAMBDA gross :
               /\ (/\ base_reserve = FromInt(1000000)
                   /\ amount = FromInt(1000)
                   /\ FeeBps = 25)
                     => (quote_ret.kind = "Ok" /\ Lt(quote_ret.v.ui_quote, gross))
               /\ quote_ret.kind = "Ok" =>
                     /\ Le(quote_ret.v.ui_quote, gross)
                     /\ TierFees(gross) # Zero => Lt(quote_ret.v.ui_quote, gross))

C23_Witness ==
    /\ QuoteOk("sell_base_input_internal")
    /\ base_reserve = FromInt(1000000)
    /\ quote_reserve = Mul(FromInt(30000), FromInt(1000000))
    /\ amount = FromInt(1000)
    /\ lp_fee_bps = FromInt(20)
    /\ protocol_fee_bps = FromInt(5)
    /\ creator_is_default
    /\ quote_ret.v.internal_quote_amount_out = FromInt(29970029)
    /\ quote_ret.v.ui_quote = FromInt(29895104)

\* C25: a successful quote never promises more than the pool holds: the base
\* returned by buy_quote_input_internal is strictly less than base_reserve,
\* and the gross and net quotes returned by sell_base_input_internal are
\* strictly less than quote_reserve.
C25_LessThanThePoolHolds ==
    /\ QuoteOk("buy_quote_input_internal") =>
          Lt(quote_ret.v.base, base_reserve)
    /\ QuoteOk("sell_base_input_internal") =>
          /\ Lt(quote_ret.v.internal_quote_amount_out, quote_reserve)
          /\ Lt(quote_ret.v.ui_quote, quote_reserve)

C25_Witness ==
    /\ QuoteOk("sell_base_input_internal")
    /\ amount = U64_MAX
    /\ base_reserve = FromInt(1000)
    /\ quote_reserve = FromInt(10)
    /\ FeeBps = 0
    /\ quote_ret.v.internal_quote_amount_out = FromInt(9)
    /\ quote_ret.v.ui_quote = FromInt(9)

\* C26: for slippage in [0, 100] the slippage-adjusted bound is on the
\* caller-protective side: max_quote >= the unadjusted cost (total_quote in
\* buy_base_input_internal, quote in buy_quote_input_internal) and
\* min_quote <= the unadjusted proceeds (quote in sell_quote_input_internal,
\* final_quote in sell_base_input_internal), with equality at slippage 0.
C26_SlippageBoundProtects ==
    (0 <= slippage /\ slippage <= 100) =>
      /\ QuoteOk("buy_base_input_internal") =>
            /\ Le(quote_ret.v.ui_quote, quote_ret.v.max_quote)
            /\ slippage = 0 => quote_ret.v.max_quote = quote_ret.v.ui_quote
      /\ QuoteOk("buy_quote_input_internal") =>
            /\ Le(amount, quote_ret.v.max_quote)
            /\ slippage = 0 => quote_ret.v.max_quote = amount
      /\ QuoteOk("sell_quote_input_internal") =>
            /\ Le(quote_ret.v.min_quote, amount)
            /\ slippage = 0 => quote_ret.v.min_quote = amount
      /\ QuoteOk("sell_base_input_internal") =>
            /\ Le(quote_ret.v.min_quote, quote_ret.v.ui_quote)
            /\ slippage = 0 => quote_ret.v.min_quote = quote_ret.v.ui_quote

C26_Witness ==
    /\ QuoteOk("buy_quote_input_internal")
    /\ slippage = 1
    /\ amount = FromInt(150)
    /\ quote_ret.v.max_quote = FromInt(151)

(***************************************************************************)
(* A claim about the logarithm loop, checked under SpecTick                *)
(***************************************************************************)
RECURSIVE LoopKeepsRange(_)
\* every turn of the loop from st on starts with r in [2^63, 2^64), squares it
\* inside 128 bits and tests a bit that is 0 or 1
LoopKeepsRange(st) ==
    IF st.bit # Zero /\ st.precision < BIT_PRECISION
    THEN /\ Le(Pow2(63), st.r)
         /\ Lt(st.r, Pow2(64))
         /\ Le(Mul(st.r, st.r), U128_MAX)
         /\ Shr(Mul(st.r, st.r), 127) \in {Zero, FromInt(1)}
         /\ Bind(log2_step(st), LAMBDA t : LoopKeepsRange(t))
    ELSE TRUE

\* C24: for every nonzero input the fractional-log loop ends after exactly
\* min(64, BIT_PRECISION) turns; at the start of every turn r is in
\* [2^63, 2^64), so r * r fits in 128 bits and the tested bit r >> 127 is 0 or 1.
C24_LoopIsBounded ==
    TickReturned =>
        \A s \in {sqrt_price, FromInt(1), U128_MAX} :
            Bind([r |-> normalise_r(s, 128 - leading_zeros(s) - 1),
                  bit |-> Pow2(63), precision |-> 0, fraction |-> Zero],
                 LAMBDA st :
                    /\ LoopKeepsRange(st)
                    /\ log2_loop(st).precision = Min(64, BIT_PRECISION))

C24_Witness ==
    /\ TickReturned
    /\ tick_index = MAX_TICK_INDEX
    /\ sqrt_price = MAX_SQRT_PRICE_X64
    /\ log2_loop([r |-> normalise_r(sqrt_price, 95), bit |-> Pow2(63),
                  precision |-> 0, fraction |-> Zero]).precision = 14

(***************************************************************************)
(* meteora-dlmm: compute_base_factor_from_fee_bps (math.rs lines 27-69)    *)
(*                                                                         *)
(* The f64 fee_bps * 10000 / bin_step is kept as [kind, whole, exact]: its *)
(* integer part and whether it is an integer.  fee_bps * 10000 is below    *)
(* 2^30 and bin_step below 2^16, so a quotient that is not an integer is   *)
(* at least 2^-16 away from every integer, far more than the rounding of   *)
(* the division (2^-23 at most): the float is an integer, and compares     *)
(* with 65535, exactly as the rational does.  Division by zero gives       *)
(* infinity, 0 / 0 gives NaN.                                              *)
(***************************************************************************)
U16_MAX == 65535

F64(kind, whole, exact) == [kind |-> kind, whole |-> whole, exact |-> exact]

\* line 28: fee_bps as f64 * 10_000.0f64 / bin_step as f64
computed_base_factor(step, bps) ==
    IF step = 0 THEN F64(IF bps = 0 THEN "nan" ELSE "inf", 0, FALSE)
    ELSE F64("finite", (bps * 10000) \div step, (bps * 10000) % step = 0)

\* line 30: computed_base_factor > u16::MAX as f64
above_u16_max(x) ==
    \/ x.kind = "inf"
    \/ x.kind = "finite" /\ (x.whole > U16_MAX \/ (x.whole = U16_MAX /\ ~x.exact))

\* lines 55-69: the sanity check of a value that is not above u16::MAX; the
\* cast `as u16` truncates and turns NaN into 0
sanity_check_skipped(x) == Ok(<<IF x.kind = "finite" THEN x.whole ELSE 0, 0>>)

sanity_check(x) ==
    IF x.kind = "finite" /\ x.exact THEN Ok(<<x.whole, 0>>) ELSE Err

\* lines 34-36: truncated_base_factor < u16::MAX as f64
loop_breaks(x) == x.kind = "finite" /\ x.whole < U16_MAX

\* lines 38-39: truncated_base_factor % 10.0 == 0.0
remainder_is_zero(x) == x.kind = "finite" /\ x.exact /\ x.whole % 10 = 0

FeeStepInputs == {0, 1, 2, 3, 5, 10, 25, 80, 100, 250, 10000, U16_MAX}

FeeBpsInputs == {0, 1, 5, 7, 10, 100, 1000, 6553, 6554, 10000, U16_MAX}

FeeInit ==
    /\ PowIdle
    /\ BinIdle
    /\ TickIdle
    /\ QuoteIdle
    /\ BotIdle
    /\ fee_step \in FeeStepInputs
    /\ fee_bps \in FeeBpsInputs
    /\ fee_pc = "call"
    /\ truncated_base_factor = [kind |-> "finite", whole |-> 0, exact |-> TRUE]
    /\ base_power_factor = 0
    /\ fee_ret = NotYet

\* lines 27-33 and 54-68: the call, up to the loop or to the return
FeeCall ==
    /\ fee_pc = "call"
    /\ IF above_u16_max(computed_base_factor(fee_step, fee_bps))
       THEN /\ fee_pc' = "loop"
            /\ truncated_base_factor' = computed_base_factor(fee_step, fee_bps)
            /\ UNCHANGED fee_ret
       ELSE /\ fee_pc' = "done"
            /\ fee_ret' = sanity_check(computed_base_factor(fee_step, fee_bps))
            /\ UNCHANGED truncated_base_factor
    /\ UNCHANGED <<fee_bps, fee_step, base_power_factor>>
    /\ UNCHANGED <<powVars, binVars, tickVars, quoteVars, botVars>>

\* lines 33-46: one turn of the loop, or the return after it (line 48).
\* base_power_factor is a u8: it is at most 4 here, 10^5 * 65535 being more
\* than 65535 * 10000
FeeLoop ==
    /\ fee_pc = "loop"
    /\ IF loop_breaks(truncated_base_factor)
       THEN /\ fee_pc' = "done"
            /\ fee_ret' = Ok(<<truncated_base_factor.whole, base_power_factor>>)
            /\ UNCHANGED <<truncated_base_factor, base_power_factor>>
       ELSE IF remainder_is_zero(truncated_base_factor)
       THEN /\ base_power_factor' = base_power_factor + 1
            /\ truncated_base_factor'
                  = F64("finite", truncated_base_factor.whole \div 10, TRUE)
            /\ UNCHANGED <<fee_pc, fee_ret>>
       ELSE /\ fee_pc' = "done"
            /\ fee_ret' = Err
            /\ UNCHANGED <<truncated_base_factor, base_power_factor>>
    /\ UNCHANGED <<fee_bps, fee_step>>
    /\ UNCHANGED <<powVars, binVars, tickVars, quoteVars, botVars>>

FeeNext == FeeCall \/ FeeLoop

\* the function runs on until it returns
SpecFee == FeeInit /\ [][FeeNext]_vars /\ WF_vars(FeeNext)

\* C27: compute_base_factor_from_fee_bps terminates for every
\* (bin_step, fee_bps); when it succeeds with (base_factor, power),
\* base_factor * 10^power * bin_step = fee_bps * 10000, with power = 0 when
\* fee_bps * 10000 / bin_step fits in u16; it fails whenever
\* fee_bps * 10000 / bin_step is not an integer or bin_step = 0.
C27_ExactDecomposition ==
    /\ <>(fee_pc = "done")
    /\ [](fee_pc = "done" =>
            /\ fee_ret.kind = "Ok" =>
                  /\ Mul(Mul(FromInt(fee_ret.v[1]),
                             BigPow(10, fee_ret.v[2])),
                         FromInt(fee_step))
                        = Mul(FromInt(fee_bps), FromInt(10000))
                  /\ (fee_step # 0
                        /\ (fee_bps * 10000) \div fee_step <= U16_MAX)
                        => fee_ret.v[2] = 0
            /\ (fee_step = 0 \/ (fee_bps * 10000) % fee_step # 0)
                  => fee_ret = Err)

C27_Witness ==
    /\ fee_pc = "done"
    /\ fee_bps = 1000
    /\ fee_step = 1
    /\ fee_ret = Ok(<<10000, 3>>)

(***************************************************************************)
(* bot.rs: the tasks run_bot spawns and the two kinds of tokio Mutex they  *)
(* share: cached_blockhash (one) and mint_pool_data (one per mint).        *)
(*   blockhash_refresher (lines 375-393): fetch, on Ok lock and write.     *)
(*   pool refresh task of a mint (lines 145-267): lock, refresh, drop.     *)
(*   transaction task of a mint (lines 327-367): lock the blockhash, copy  *)
(*   it and let the guard go, lock the pool data, build and send, sleep;   *)
(*   the pool guard lives to the end of the loop body, after the sleep.    *)
(* The sleep that ends the pool refresh task's loop holds no lock and is a  *)
(* delay before its next lock step.                                        *)
(***************************************************************************)
NumMints == 1

Mints == 1..NumMints

NumHashes == 2

Hashes == 0..(NumHashes - 1)

Holder(task, m) == [task |-> task, mint |-> m]

BotInit ==
    /\ PowIdle
    /\ BinIdle
    /\ TickIdle
    /\ QuoteIdle
    /\ FeeIdle
    /\ blockhash_lock = Holder("none", 0)
    /\ pool_lock = [m \in Mints |-> "none"]
    /\ cached_blockhash \in Hashes
    /\ refresher_pc = [at |-> "fetch", blockhash |-> 0]
    /\ pool_pc = [m \in Mints |-> "lock"]
    /\ send_pc = [m \in Mints |-> "blockhash"]
    /\ latest_blockhash = [m \in Mints |-> 0]

NotBot == <<powVars, binVars, tickVars, quoteVars, feeVars>>

\* lines 381-390: rpc_client.get_latest_blockhash(), Ok(blockhash) or Err;
\* on Err the error is logged and the task goes to its sleep
RefresherFetch ==
    /\ refresher_pc.at = "fetch"
    /\ \/ \E h \in Hashes : refresher_pc' = [at |-> "lock", blockhash |-> h]
       \/ refresher_pc' = [at |-> "sleep", blockhash |-> 0]
    /\ UNCHANGED <<blockhash_lock, pool_lock, cached_blockhash, pool_pc,
                   send_pc, latest_blockhash, NotBot>>

\* line 383: cached_blockhash.lock().await
RefresherLock ==
    /\ refresher_pc.at = "lock"
    /\ blockhash_lock = Holder("none", 0)
    /\ blockhash_lock' = Holder("refresher", 0)
    /\ refresher_pc' = [refresher_pc EXCEPT !.at = "write"]
    /\ UNCHANGED <<pool_lock, cached_blockhash, pool_pc, send_pc,
                   latest_blockhash, NotBot>>

\* lines 384-386, 391: *guard = blockhash; the guard is dropped with the arm
RefresherWrite ==
    /\ refresher_pc.at = "write"
    /\ cached_blockhash' = refresher_pc.blockhash
    /\ blockhash_lock' = Holder("none", 0)
    /\ refresher_pc' = [at |-> "sleep", blockhash |-> 0]
    /\ UNCHANGED <<pool_lock, pool_pc, send_pc, latest_blockhash, NotBot>>

\* line 392: tokio::time::sleep(refresh_interval).await
RefresherSleep ==
    /\ refresher_pc.at = "sleep"
    /\ refresher_pc' = [at |-> "fetch", blockhash |-> 0]
    /\ UNCHANGED <<blockhash_lock, pool_lock, cached_blockhash, pool_pc,
                   send_pc, latest_blockhash, NotBot>>

\* line 148: mint_pool_data_clone.lock().await
PoolLock(m) ==
    /\ pool_pc[m] = "lock"
    /\ pool_lock[m] = "none"
    /\ pool_lock' = [pool_lock EXCEPT ![m] = "pool"]
    /\ pool_pc' = [pool_pc EXCEPT ![m] = "refresh"]
    /\ UNCHANGED <<blockhash_lock, cached_blockhash, refresher_pc, send_pc,
                   latest_blockhash, NotBot>>

\* lines 150-265: the caches are refreshed, drop(guard), sleep
PoolRefresh(m) ==
    /\ pool_pc[m] = "refresh"
    /\ pool_lock' = [pool_lock EXCEPT ![m] = "none"]
    /\ pool_pc' = [pool_pc EXCEPT ![m] = "lock"]
    /\ UNCHANGED <<blockhash_lock, cached_blockhash, refresher_pc, send_pc,
                   latest_blockhash, NotBot>>

\* line 332: cached_blockhash_clone.lock().await
SendLockBlockhash(m) ==
    /\ send_pc[m] = "blockhash"
    /\ blockhash_lock = Holder("none", 0)
    /\ blockhash_lock' = Holder("send", m)
    /\ send_pc' = [send_pc EXCEPT ![m] = "copy"]
    /\ UNCHANGED <<pool_lock, cached_blockhash, refresher_pc, pool_pc,
                   latest_blockhash, NotBot>>

\* the guard outliving the block that copies the blockhash
SendCopy_keeps_guard(m) ==
    /\ send_pc[m] = "copy"
    /\ latest_blockhash' = [latest_blockhash EXCEPT ![m] = cached_blockhash]
    /\ send_pc' = [send_pc EXCEPT ![m] = "pool"]
    /\ UNCHANGED <<blockhash_lock, pool_lock, cached_blockhash, refresher_pc,
                   pool_pc, NotBot>>

\* lines 333-334: *guard, and the guard is dropped with the block
SendCopy(m) ==
    /\ send_pc[m] = "copy"
    /\ latest_blockhash' = [latest_blockhash EXCEPT ![m] = cached_blockhash]
    /\ blockhash_lock' = Holder("none", 0)
    /\ send_pc' = [send_pc EXCEPT ![m] = "pool"]
    /\ UNCHANGED <<pool_lock, cached_blockhash, refresher_pc, pool_pc, NotBot>>

\* line 336: mint_pool_data.lock().await
SendLockPool(m) ==
    /\ send_pc[m] = "pool"
    /\ pool_lock[m] = "none"
    /\ pool_lock' = [pool_lock EXCEPT ![m] = "send"]
    /\ send_pc' = [send_pc EXCEPT ![m] = "build"]
    /\ UNCHANGED <<blockhash_lock, cached_blockhash, refresher_pc, pool_pc,
                   latest_blockhash, NotBot>>

\* lines 338-363: build_and_send_transaction(...).await, Ok or Err
SendBuild(m) ==
    /\ send_pc[m] = "build"
    /\ send_pc' = [send_pc EXCEPT ![m] = "sleep"]
    /\ UNCHANGED <<blockhash_lock, pool_lock, cached_blockhash, refresher_pc,
                   pool_pc, latest_blockhash, NotBot>>

\* lines 365-366: sleep(process_delay); the pool guard is dropped at the end
\* of the loop body
SendSleep(m) ==
    /\ send_pc[m] = "sleep"
    /\ pool_lock' = [pool_lock EXCEPT ![m] = "none"]
    /\ send_pc' = [send_pc EXCEPT ![m] = "blockhash"]
    /\ UNCHANGED <<blockhash_lock, cached_blockhash, refresher_pc, pool_pc,
                   latest_blockhash, NotBot>>

BotNext ==
    \/ RefresherFetch
    \/ RefresherLock
    \/ RefresherWrite
    \/ RefresherSleep
    \/ \E m \in Mints :
          \/ PoolLock(m)
          \/ PoolRefresh(m)
          \/ SendLockBlockhash(m)
          \/ SendCopy(m)
          \/ SendLockPool(m)
          \/ SendBuild(m)
          \/ SendSleep(m)

\* every task runs on (weak fairness of its steps); tokio's Mutex hands the
\* lock to its waiters in turn, so a task that finds the lock free again and
\* again gets it (strong fairness of the lock steps)
SpecBot ==
    /\ BotInit
    /\ [][BotNext]_vars
    /\ WF_vars(RefresherFetch)
    /\ SF_vars(RefresherLock)
    /\ WF_vars(RefresherWrite)
    /\ WF_vars(RefresherSleep)
    /\ \A m \in Mints :
          /\ SF_vars(PoolLock(m))
          /\ WF_vars(PoolRefresh(m))
          /\ SF_vars(SendLockBlockhash(m))
          /\ WF_vars(SendCopy(m))
          /\ SF_vars(SendLockPool(m))
          /\ WF_vars(SendBuild(m))
          /\ WF_vars(SendSleep(m))

\* no task holds the blockhash lock and a pool-data lock at once, and some
\* task can always take a step
NoNestedLocks ==
    /\ \A m \in Mints :
          ~(blockhash_lock = Holder("send", m) /\ pool_lock[m] = "send")
    /\ ENABLED BotNext

=============================================================================
